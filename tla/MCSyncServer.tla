---------------------------- MODULE MCSyncServer ----------------------------
EXTENDS SyncServer, TLC

CONSTANTS d1, d2, x, y, n1, n2, h1, h2, s1, s2, q

Upsert(change, entity, base, name) ==
    [change |-> change, key |-> change, op |-> "upsert", entity |-> entity,
     base |-> base, name |-> name, parent |-> NoEntity]

CreateX == Upsert(1, x, 0, n1)
CreateY == [Upsert(2, y, 0, n2) EXCEPT !.parent = x]
RenameX == Upsert(3, x, 1, n2)
DeleteX == [Upsert(4, x, 1, n1) EXCEPT !.op = "delete"]
CommandX == [Upsert(5, x, 0, n1) EXCEPT !.op = "command"]
BadEdit == [Upsert(6, x, 1, n1) EXCEPT !.key = CommandX.key]
BadX == [CreateX EXCEPT !.base = 1]

\* Retries: both devices may send the same command (a user who returns under
\* a new device id), and one of them an edit under the key of that command. The
\* edit is in conflict unless it meets version 1, where a constraint refuses it.
RetryEnvelopes == {CreateX, CommandX, BadEdit}
RetryUnfit == {BadEdit}
RetryMaySend ==
    [d \in Devices |-> IF d = d1 THEN {CreateX, CommandX} ELSE {CommandX, BadEdit}]

\* Resolution: a renaming that meets a taken name, a newer version or a
\* deletion, an entity whose reference is missing or deleted, and a change that
\* is malformed.
ResolveEnvelopes == {CreateX, CreateY, RenameX, DeleteX, CommandX, BadX}
ResolveMalformed == {BadX}
ResolveMaySend ==
    [d \in Devices |-> ResolveEnvelopes]

Symmetric == Permutations(Handlers) \cup Permutations(Resolvers)
=============================================================================
