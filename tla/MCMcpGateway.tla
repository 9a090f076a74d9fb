------------------------------ MODULE MCMcpGateway ------------------------------
(***************************************************************************)
(* Instances of McpGateway for TLC: short conversations of one or two      *)
(* clients, behind the edge and without it.                                *)
(***************************************************************************)
EXTENDS McpGateway, Sequences

CONSTANTS i1, i2, alice, bob, chat

Absent == [method |-> "none", calls |-> {}, cancels |-> {}, init |-> FALSE, fast |-> FALSE,
           header |-> None, identity |-> None, chat |-> None, address |-> 1]
Post(calls, cancels) == [Absent EXCEPT !.method = "POST", !.calls = calls, !.cancels = cancels]
Fast(i) == [Post({i}, {}) EXCEPT !.fast = TRUE]
Initialize == [Post({}, {}) EXCEPT !.init = TRUE]
Get == [Absent EXCEPT !.method = "GET"]
Delete == [Absent EXCEPT !.method = "DELETE"]

In(s, q) == [q EXCEPT !.header = s]
From(who, q) == [q EXCEPT !.identity = who]
Chatting(q) == [q EXCEPT !.chat = chat]

Start(mode, front, bodies) == {[mode |-> mode, front |-> front, bodies |-> b] : b \in bodies}

Call == From(alice, Post({i1}, {}))
FastCall == From(alice, Fast(i1))
CancelCall == From(alice, Post({}, {i1}))
Init1 == From(alice, Initialize)

\* Without sessions: a call, a cancellation of it by the same client, and the id once
\* more; a batch that cancels a call of its own; clients that are told apart by the
\* conversation, by a session header, or not at all.
Stateless ==
    Start("stateless", "edge",
        {<<c, CancelCall, Absent>> : c \in {Call, FastCall}} \cup {<<Call, From(bob, Fast(i1)), FastCall>>})
    \cup Start("stateless", "direct",
        {<<FastCall, CancelCall, Call>>,
         <<From(alice, Post({i1, i2}, {i2})), CancelCall, Absent>>,
         <<Chatting(Post({i1}, {})), Chatting(Post({}, {i1})), Absent>>,
         <<In(3, Post({i1}, {})), In(3, Post({}, {i1})), Absent>>,
         <<In(3, Fast(i1)), In(3, Fast(i1)), Absent>>,
         <<Init1, Absent, Absent>>,
         <<Post({i1}, {}), Post({}, {i1}), From(bob, CancelCall)>>})

\* With sessions: one is initialized and used, deleted, left to expire, or asked for when
\* there is no room.
WithSessions ==
    Start("stateful-experiment", "edge", {<<Init1, In(1, Call), Absent>>, <<Init1, Init1, Absent>>})
    \cup Start("stateful-experiment", "direct",
        {<<Init1, In(1, c), In(1, CancelCall)>> : c \in {Call, FastCall}}
        \cup {<<Init1, In(1, Call), r>> : r \in {In(1, Call), From(alice, In(1, Delete)), Init1}}
        \cup {<<Init1, From(alice, In(1, Get)), r>> : r \in {CancelCall, From(bob, In(1, Call))}})

MCSetups == Stateless \cup WithSessions
=============================================================================
