---------------------------- MODULE GScanResults -----------------------------
(***************************************************************************)
(* wifi_get_cached_gscan_results: GetScanResultsCommand asks the driver    *)
(* for its cached scans, round after round, and handleResponse copies each *)
(* scan that has results into the caller's array of mMax scans.            *)
(*                                                                         *)
(* The driver is external.  It hands over the scans of its cache in order, *)
(* goes on in the next round where it stopped, and reports completion only *)
(* when it has nothing left; a reply may hold any number of scans, more    *)
(* than were asked for included, and a round any number of replies.  What  *)
(* a round is made of, the request and its acknowledgement, is the subject *)
(* of WifiRequest.                                                         *)
(***************************************************************************)
EXTENDS Integers, FiniteSets, FiniteSetsExt, SequencesExt

CONSTANTS
    Scans,         \* scans the driver may hold: [num, len] of their results
    MaxCache,      \* how many of them it holds at most (a bound for TLC)
    MaxMax,        \* the largest array a caller brings (a bound for TLC)
    MaxReplies,    \* replies in one round (a bound for TLC)
    MaxRounds,     \* the rounds of execute, 10 in the code
    MaxAp          \* MAX_AP_CACHE_PER_SCAN

ASSUME ScanAssumption ==
    /\ Scans \subseteq [num : Nat, len : Nat]
    /\ {MaxCache, MaxMax, MaxReplies, MaxRounds, MaxAp} \subseteq Nat

VARIABLES
    cache,            \* the driver's cached scans
    given,            \* how many of them it has handed over
    replies,          \* the replies of this round so far
    mMax,
    mScans,           \* the caller's array, as far as it is filled
    mCompleted,
    prev_retrieved,
    round,            \* i of execute
    phase,            \* "idle", "waiting", "judging" or "done"
    mNum,             \* what the caller reads, -1 while it is not set
    barren            \* the last round brought nothing that could be stored

scanVars == <<cache, given, replies, mMax, mScans, mCompleted, prev_retrieved, round,
          phase, mNum, barren>>

mRetrieved == Len(mScans)

NotSet == -1

ScanInit ==
    /\ cache \in UNION {[1..n -> Scans] : n \in 0..MaxCache}
    /\ mMax \in 0..MaxMax
    /\ given = 0
    /\ replies = 0
    /\ mScans = << >>
    /\ mCompleted = 0
    /\ prev_retrieved = 0
    /\ round = 0
    /\ phase = "idle"
    /\ mNum = NotSet
    /\ barren = FALSE

-----------------------------------------------------------------------------
\* The end of execute: the caller learns how many scans there are.
Report == phase' = "done" /\ mNum' = mRetrieved

\* The head of the loop and the request it sends.
Ask ==
    /\ phase = "idle"
    /\ round < MaxRounds /\ mRetrieved < mMax
    /\ phase' = "waiting"
    /\ prev_retrieved' = mRetrieved
    /\ replies' = 0
    /\ UNCHANGED <<cache, given, mMax, mScans, mCompleted, round, mNum, barren>>

\* The loop ends by its own condition.
LeaveLoop ==
    /\ phase = "idle"
    /\ round >= MaxRounds \/ mRetrieved >= mMax
    /\ Report
    /\ UNCHANGED <<cache, given, replies, mMax, mScans, mCompleted, prev_retrieved,
                   round, barren>>

\* The request cannot be made or sent, or the driver refuses it: execute returns
\* the error at once and leaves *mNum alone.
ScanRequestFails ==
    /\ phase = "waiting"
    /\ phase' = "done"
    /\ UNCHANGED <<cache, given, replies, mMax, mScans, mCompleted, prev_retrieved,
                   round, mNum, barren>>

\* The count is believed, whatever the attribute holds (a mutant).
CopiedAsClaimed(id) == [scan_id |-> id, num_results |-> cache[id].num]

\* What is copied of a scan: as many results as the driver claims, as the
\* attribute holds, and as the caller's structure has room for.
CopiedScan(id) ==
    [scan_id |-> id, num_results |-> Min({cache[id].num, cache[id].len, MaxAp})]

\* The scans from first to last that have results.
WithResults(first, last) == {id \in first..last : cache[id].num # 0}

\* The scans of S in the order in which the driver hands them over.
InOrder(S) ==
    LET n == Cardinality(S)
    IN  {ids \in [1..n -> S] : \A i, j \in 1..n : i < j => ids[i] < ids[j]}

\* A reply overwrites what the last one stored (a mutant).
StoredAnew(ids) ==
    [j \in 1..Min({Len(ids), mMax}) |-> CopiedScan(ids[j])]

\* What mScans holds after a reply: excess scans are ignored.
Stored(ids) ==
    LET n == Min({Len(ids), mMax - mRetrieved})
    IN  mScans \o [j \in 1..n |-> CopiedScan(ids[j])]

\* handleResponse, for a reply with the next n scans.  The flag, when the reply
\* has one, is 1 if these are the last.
handleScanResults(n, flagged) ==
    /\ phase = "waiting"
    /\ replies < MaxReplies
    /\ n \in 0..(Len(cache) - given)
    /\ given' = given + n
    /\ replies' = replies + 1
    /\ \E ids \in InOrder(WithResults(given + 1, given + n)) : mScans' = Stored(ids)
    /\ mCompleted' = IF ~flagged THEN mCompleted
                     ELSE IF given' = Len(cache) THEN 1 ELSE 0
    /\ UNCHANGED <<cache, mMax, prev_retrieved, round, phase, mNum, barren>>

\* The round is acknowledged; the driver may have sent no reply in it.
Acknowledged ==
    /\ phase = "waiting"
    /\ phase' = "judging"
    /\ UNCHANGED <<cache, given, replies, mMax, mScans, mCompleted, prev_retrieved,
                   round, mNum, barren>>

\* The loop goes on only when a round filled less than half (a mutant).
NothingNewUnlessHalf == 2 * (mRetrieved - prev_retrieved) <= mMax

\* The round brought nothing that could be stored.
NothingNew == mRetrieved = prev_retrieved

\* "no more items left to retrieve" (gscan.cpp:876).
Stop ==
    /\ phase = "judging"
    /\ NothingNew \/ mCompleted # 0
    /\ Report
    /\ barren' = (mRetrieved = prev_retrieved)
    /\ UNCHANGED <<cache, given, replies, mMax, mScans, mCompleted, prev_retrieved, round>>

\* The next round is not counted, and begun whatever the last one brought (a
\* mutant).
GoOnRegardless ==
    /\ phase = "judging"
    /\ phase' = "idle"
    /\ UNCHANGED <<cache, given, replies, mMax, mScans, mCompleted, prev_retrieved,
                   round, mNum, barren>>

GoOn ==
    /\ phase = "judging"
    /\ ~NothingNew /\ mCompleted = 0
    /\ phase' = "idle"
    /\ round' = round + 1
    /\ UNCHANGED <<cache, given, replies, mMax, mScans, mCompleted, prev_retrieved,
                   mNum, barren>>

ScanNext ==
    \/ Ask
    \/ LeaveLoop
    \/ ScanRequestFails
    \/ \E n \in 0..MaxCache, flagged \in BOOLEAN : handleScanResults(n, flagged)
    \/ Acknowledged
    \/ Stop
    \/ GoOn

ScanSpec == ScanInit /\ [][ScanNext]_scanVars

\* Every request comes to its end (WifiRequest), and the caller's thread runs on.
FairScanSpec ==
    /\ ScanSpec
    /\ WF_scanVars(Ask \/ LeaveLoop \/ Stop \/ GoOn)
    /\ WF_scanVars(Acknowledged \/ ScanRequestFails)

-----------------------------------------------------------------------------
(***************************************************************************)
(* Properties.                                                             *)
(***************************************************************************)

\* Every variable has its type.  No more than mMax scans are stored, whatever the
\* driver sends, and no scan has more results than the caller's structure holds.
ScanTypeOK ==
    /\ cache \in Seq(Scans)
    /\ mScans \in Seq([scan_id : Nat, num_results : Nat])
    /\ given \in 0..Len(cache)
    /\ replies \in 0..MaxReplies
    /\ mMax \in 0..MaxMax
    /\ mRetrieved <= mMax
    /\ \A k \in 1..mRetrieved :
          mScans[k].scan_id \in 1..given /\ mScans[k].num_results \in 0..MaxAp
    /\ mCompleted \in {0, 1}
    /\ prev_retrieved \in 0..mRetrieved
    /\ round \in 0..MaxRounds
    /\ phase \in {"idle", "waiting", "judging", "done"}
    /\ mNum \in {NotSet} \cup 0..mMax
    /\ barren \in BOOLEAN

\* The array holds the first scans with results that the driver handed over, all
\* of them or as many as fit, in its order, none twice, and of each no more
\* results than came.
StoredInOrder ==
    \E ids \in InOrder(WithResults(1, given)) :
        /\ mRetrieved = Min({Len(ids), mMax})
        /\ \A k \in 1..mRetrieved :
              /\ mScans[k].scan_id = ids[k]
              /\ mScans[k].num_results <= cache[ids[k]].len

\* A caller who is told of fewer scans than he has room for has all there are,
\* unless the rounds ran out or a whole round brought nothing to store, which
\* the loop takes for the end.
NothingMissed ==
    mNum # NotSet /\ mNum < mMax /\ round < MaxRounds /\ ~barren
      => mNum = Cardinality(WithResults(1, Len(cache)))

\* The call returns, whatever the driver sends.
Returns == <>(phase = "done")
=============================================================================
