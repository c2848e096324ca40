----------------------------- MODULE WifiRequest -----------------------------
(***************************************************************************)
(* WifiCommand::requestResponse: a request is sent on cmd_sock and its     *)
(* answers are read back from the same socket.  The HAL has one cmd_sock   *)
(* and no lock around a request, so several threads may be in it at once.  *)
(* no_seq_check switches off the only test of whose an answer is: whoever  *)
(* reads a message next takes it for the answer to its own request.        *)
(*                                                                         *)
(* The kernel (external) serves a request within the send: it may queue    *)
(* data, and then queues one acknowledgement or one error for it.          *)
(*                                                                         *)
(* What a caller asks for, and what it makes of the data it is given, is   *)
(* in WifiQueries.                                                         *)
(***************************************************************************)
EXTENDS WifiQueries, FiniteSets

CONSTANTS
    Callers,       \* the threads that may call the HAL at once
    Queries,       \* what they ask for
    MaxItems,      \* the most values the driver has for a query
    MaxRequests    \* how many requests are made (a bound for TLC)

ASSUME RequestAssumption ==
    /\ IsFiniteSet(Callers)
    /\ Queries \subseteq [class : {"channels", "matrix", "gscan", "rtt", "order"},
                           max : Nat \ {0}]
    /\ MaxItems \in Nat \ {0}
    /\ MaxRequests \in Nat

VARIABLES
    pc,            \* where each caller is in requestResponse
    queue,         \* the messages that wait on cmd_sock
    query,         \* what each caller asked for last
    out,           \* what it has in its buffer
    handled,       \* the requests whose data a caller's handleResponse was given
    answered,      \* what the kernel made of a caller's request: the values it
                   \* sent, if it sent any, and its verdict
    result,        \* what requestResponse returned
    overlapped,    \* whether another request was out at the same time
    requests       \* how many requests were made

vars == <<pc, queue, query, out, handled, answered, result, overlapped, requests>>

\* A request is out from its send to its result.
Out == {c \in Callers : pc[c] # "idle"}

Message(kind, c, answer) == [kind |-> kind, of |-> c, answer |-> answer]
Silence == <<>>
NotAnswered == [sent |-> FALSE, values |-> <<>>, verdict |-> "none"]

\* The values the driver has for a query, each of which names the request it is
\* for: some of a list, or one.
DriverValues(c, r, q) ==
    {[i \in 1..n |-> <<c, r, i>>] :
        n \in IF q.class \in {"channels", "matrix"} THEN 0..MaxItems ELSE {1}}

\* Whatever the driver may answer.
AnswersTo(c, r, q) == {DriverAnswer(q, values) : values \in DriverValues(c, r, q)}

Answers == UNION {AnswersTo(c, r, q) : c \in Callers, r \in 1..MaxRequests,
                                       q \in {p \in Queries : p.class # "order"}}

Init ==
    /\ pc = [c \in Callers |-> "idle"]
    /\ queue = <<>>
    /\ query = [c \in Callers |-> Query("order", 1)]
    /\ out = [c \in Callers |-> Fresh(query[c])]
    /\ handled = [c \in Callers |-> {}]
    /\ answered = [c \in Callers |-> NotAnswered]
    /\ result = [c \in Callers |-> "none"]
    /\ overlapped = [c \in Callers |-> FALSE]
    /\ requests = 0

-----------------------------------------------------------------------------
Begin(c) ==
    /\ pc[c] = "idle"
    /\ requests < MaxRequests
    /\ requests' = requests + 1
    /\ \E q \in Queries :
          /\ query' = [query EXCEPT ![c] = q]
          /\ out' = [out EXCEPT ![c] = Fresh(q)]
    /\ handled' = [handled EXCEPT ![c] = {}]
    /\ answered' = [answered EXCEPT ![c] = NotAnswered]

\* The request cannot be created or sent: an error, and nothing is awaited.
RequestFails(c) ==
    /\ Begin(c)
    /\ result' = [result EXCEPT ![c] = "failed"]
    /\ UNCHANGED <<pc, queue, overlapped>>

\* nl_cb_alloc fails: err is still 0, so the caller is told of a success.
AllocFails(c) ==
    /\ Begin(c)
    /\ result' = [result EXCEPT ![c] = "ok"]
    /\ UNCHANGED <<pc, queue, overlapped>>

Send(c) ==
    /\ Begin(c)
    /\ pc' = [pc EXCEPT ![c] = "sending"]
    /\ result' = [result EXCEPT ![c] = "none"]
    /\ overlapped' = [d \in Callers |->
                        CASE d = c   -> Out # {}
                          [] d \in Out -> TRUE
                          [] OTHER   -> overlapped[d]]
    /\ UNCHANGED queue

-----------------------------------------------------------------------------
\* The kernel, in the thread of the caller.
KernelQueuesData(c) ==
    /\ pc[c] = "sending" /\ ~answered[c].sent
    /\ query[c].class # "order"
    /\ \E values \in DriverValues(c, requests, query[c]) :
          /\ queue' = Append(queue, Message("data", c, DriverAnswer(query[c], values)))
          /\ answered' = [answered EXCEPT ![c].sent = TRUE, ![c].values = values]
    /\ UNCHANGED <<pc, query, out, handled, result, overlapped, requests>>

KernelAnswers(c) ==
    /\ pc[c] = "sending"
    /\ \E kind \in IF answered[c].sent THEN {"ack"} ELSE {"ack", "error"} :
          /\ queue' = Append(queue, Message(kind, c, Silence))
          /\ answered' = [answered EXCEPT ![c].verdict = kind]
    /\ pc' = [pc EXCEPT ![c] = "waiting"]
    /\ UNCHANGED <<query, out, handled, result, overlapped, requests>>

-----------------------------------------------------------------------------
Awaits(c) == pc[c] = "waiting" /\ queue # <<>>

Ends(c, outcome) ==
    /\ pc' = [pc EXCEPT ![c] = "idle"]
    /\ result' = [result EXCEPT ![c] = outcome]

\* Data ends the wait too (a mutant).
response_handler_ends(c) ==
    /\ Awaits(c) /\ Head(queue).kind = "data"
    /\ handled' = [handled EXCEPT ![c] = @ \cup {Head(queue).of}]
    /\ out' = [out EXCEPT ![c] = handleResponse(query[c], @, Head(queue).answer)]
    /\ queue' = Tail(queue)
    /\ Ends(c, "ok")
    /\ UNCHANGED <<query, answered, overlapped, requests>>

\* nl_recvmsgs takes the first message and calls the handler for its kind.
response_handler(c) ==
    /\ Awaits(c) /\ Head(queue).kind = "data"
    /\ handled' = [handled EXCEPT ![c] = @ \cup {Head(queue).of}]
    /\ out' = [out EXCEPT ![c] = handleResponse(query[c], @, Head(queue).answer)]
    /\ queue' = Tail(queue)
    /\ UNCHANGED <<pc, query, answered, result, overlapped, requests>>

\* The message stays on the socket (a mutant).
ack_handler_peeks(c) ==
    /\ Awaits(c) /\ Head(queue).kind = "ack"
    /\ Ends(c, "ok")
    /\ UNCHANGED <<queue, query, out, handled, answered, overlapped, requests>>

\* Only a caller that has had data stops at the acknowledgement (a mutant).
ack_handler_after_data(c) ==
    /\ Awaits(c) /\ Head(queue).kind = "ack"
    /\ queue' = Tail(queue)
    /\ IF handled[c] # {} THEN Ends(c, "ok") ELSE UNCHANGED <<pc, result>>
    /\ UNCHANGED <<query, out, handled, answered, overlapped, requests>>

ack_handler(c) ==
    /\ Awaits(c) /\ Head(queue).kind = "ack"
    /\ queue' = Tail(queue)
    /\ Ends(c, "ok")
    /\ UNCHANGED <<query, out, handled, answered, overlapped, requests>>

\* The error is dropped (a mutant).
error_handler_drops(c) ==
    /\ Awaits(c) /\ Head(queue).kind = "error"
    /\ queue' = Tail(queue)
    /\ Ends(c, "ok")
    /\ UNCHANGED <<query, out, handled, answered, overlapped, requests>>

error_handler(c) ==
    /\ Awaits(c) /\ Head(queue).kind = "error"
    /\ queue' = Tail(queue)
    /\ Ends(c, "failed")
    /\ UNCHANGED <<query, out, handled, answered, overlapped, requests>>

-----------------------------------------------------------------------------
\* A caller that is in requestResponse goes on.
Proceeds(c) ==
    \/ KernelAnswers(c)
    \/ response_handler(c)
    \/ ack_handler(c)
    \/ error_handler(c)

Next ==
    \E c \in Callers :
        \/ Send(c)
        \/ RequestFails(c)
        \/ AllocFails(c)
        \/ KernelQueuesData(c)
        \/ Proceeds(c)

Spec == Init /\ [][Next]_vars

\* Every thread is scheduled.
FairSpec == Spec /\ \A c \in Callers : WF_vars(Proceeds(c))

-----------------------------------------------------------------------------
(***************************************************************************)
(* Properties.                                                             *)
(***************************************************************************)
\* Every variable has its type; the socket never holds more than two messages
\* for each caller.
TypeOK ==
    /\ pc \in [Callers -> {"idle", "sending", "waiting"}]
    /\ queue \in Seq([kind : {"data", "ack", "error"}, of : Callers,
                      answer : Answers \cup {Silence}])
    /\ Len(queue) <= 2 * Cardinality(Callers)
    /\ \A i \in 1..Len(queue) : queue[i].kind = "data" <=> queue[i].answer # Silence
    /\ query \in [Callers -> Queries \cup {Query("order", 1)}]
    /\ handled \in [Callers -> SUBSET Callers]
    /\ DOMAIN out = Callers
    /\ answered \in [Callers -> [sent : BOOLEAN,
                                 values : Seq(Callers \X (1..MaxRequests) \X (1..MaxItems)),
                                 verdict : {"none", "ack", "error"}]]
    /\ result \in [Callers -> {"none", "ok", "failed"}]
    /\ overlapped \in [Callers -> BOOLEAN]
    /\ requests \in 0..MaxRequests

\* When no request is out, the socket is empty: whatever requests overlapped
\* and took one another's answers, the next one starts with none of theirs.
NothingLeftOver == Out = {} => queue = <<>>

\* What the caller of q should find in his buffer when the driver has these
\* values: as many of them as there is room for, and the rest untouched.
Delivered(q, values) ==
    LET n == Least(Len(values), q.max)
    IN [num   |-> IF q.class \in {"channels", "matrix"} THEN n ELSE Unset,
        items |-> [i \in 1..q.max |-> IF i <= n THEN values[i] ELSE Blank]]

\* A request that no other overlapped is given its own data, all of it and no
\* other's, returns what the kernel answered, and leaves in the caller's
\* buffer what the driver has, as far as there is room.
AloneGetsOwn ==
    \A c \in Callers :
        pc[c] = "idle" /\ ~overlapped[c] /\ answered[c].verdict # "none" =>
            /\ handled[c] = (IF answered[c].sent THEN {c} ELSE {})
            /\ result[c] = (IF answered[c].verdict = "ack" THEN "ok" ELSE "failed")
            /\ out[c] = IF answered[c].sent THEN Delivered(query[c], answered[c].values)
                                            ELSE Fresh(query[c])

\* Whosever answers a caller is given, nothing is written past the end of its
\* buffer.
WithinBuffer == \A c \in Callers : DOMAIN out[c].items = 1..query[c].max

\* Whosever answers a caller is given, the values it is told are there are
\* there, in order, and all from one answer.
CountMatchesItems ==
    \A c \in Callers : \A i, j \in 1..out[c].num :
        /\ out[c].items[i] \notin {Blank, Junk}
        /\ out[c].items[i][2] = out[c].items[j][2]
        /\ out[c].items[i][3] = i

\* Every caller returns, although requests that overlap take one another's
\* acknowledgements: there is one for each caller that waits.
EveryCallerReturns ==
    \A c \in Callers : (pc[c] # "idle") ~> (pc[c] = "idle")
=============================================================================
