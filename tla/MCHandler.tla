----------------------------- MODULE MCHandler -----------------------------
(***************************************************************************)
(* Three requests on two users, whose userName is unique and whose nick is *)
(* immutable.  Each request asks one of the jobs below, so the three may   *)
(* be two writes and a deletion, a write between a deletion and a creation *)
(* that takes the same identifier, or writes of different attributes.      *)
(***************************************************************************)
EXTENDS Handler

CONSTANTS i1, i2, i3

MCTypes == {"User"}
\* No more than two users can hold one of the two names: an identifier is left
\* for every creation.
MCIds == {i1, i2, i3}
MCAttrs == {"userName", "nick"}
MCUniqueAttrs == {"userName"}
MCImmutableAttrs == {"nick"}
MCDeclares == [t \in MCTypes |-> MCAttrs]
MCValues == {"a", "b"}
MCComparable == [a \in MCAttrs |-> [v \in MCValues |-> v]]

User(name, nick) == [a \in MCAttrs |-> IF a = "userName" THEN name ELSE nick]
Only(a, v) == [b \in {a} |-> v]

A == <<"User", i1>>
B == <<"User", i2>>

JobOf(op, data, valid, ifMatch, ifNoneMatch) ==
    [op |-> op, key |-> A, data |-> data, valid |-> valid,
     ifMatch |-> ifMatch, ifNoneMatch |-> ifNoneMatch]

Plain(op, data) == JobOf(op, data, TRUE, NoHeader, NoHeader)

MCJobs == {
    Plain("post", User("a", Missing)),
    Plain("put", User("b", Missing)),
    Plain("put", User("a", "a")),
    JobOf("put", User("b", Missing), TRUE, {1}, NoHeader),
    JobOf("put", User("b", Missing), FALSE, NoHeader, NoHeader),
    Plain("patch", Only("userName", "b")),
    Plain("patch", Only("nick", "b")),
    JobOf("patch", Only("nick", "a"), TRUE, AnyTag, NoHeader),
    JobOf("patch", Only("nick", "a"), TRUE, NoHeader, {1}),
    Plain("delete", <<>>),
    JobOf("delete", <<>>, TRUE, {1}, NoHeader),
    JobOf("get", <<>>, TRUE, NoHeader, {1, 2}) }

\* The storage was left by two creations, or by two creations and a deletion.
Created == [k \in Keys |-> IF k = A
                           THEN [data |-> User("a", Missing), version |-> 1]
                           ELSE NoResource]
MCContents == { Created,
    [Created EXCEPT ![B] = [data |-> User("b", Missing), version |-> 2]] }
=============================================================================
