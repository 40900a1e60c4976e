---------------------------- MODULE TestResultQ ----------------------------
(***************************************************************************)
(* CTestResultQ (testresultq.h): tests publish results from any thread, and *)
(* a test waits for the one it wants.  The queue is a CMtQueue, of which    *)
(* MtQueue shows that it hands items over once and in order; insertItem and *)
(* waitItem are one step here.  Time is counted in slices longer than the   *)
(* 20 ms below which getResult gives up.                                    *)
(***************************************************************************)
EXTENDS Naturals, Sequences

CONSTANTS
  ResultIds,      \* identities of results, without 0
  MaxPublished,   \* results published
  MaxWait         \* slices in the longest wait

ASSUME ResultAssumption == 0 \notin ResultIds /\ MaxPublished \in Nat /\ MaxWait \in Nat

VARIABLES
  theResQ,     \* m_theResQ
  published,
  wanted,      \* theId of the call; 0 for any
  success,     \* the call is getSuccessResult with theLoops > 0
  theResult,   \* the result a caller has, or NoResult
  timeLeft,    \* slices until theTimer expires
  phase        \* where the caller is

resultVars == <<theResQ, published, wanted, success, theResult, timeLeft, phase>>

NoResult == [id |-> 0, ok |-> FALSE]
TestResults == [id : ResultIds, ok : BOOLEAN]

ResultInit ==
  /\ theResQ = <<>> /\ published = 0
  /\ wanted = 0 /\ success = FALSE /\ theResult = NoResult
  /\ timeLeft = 0 /\ phase = "idle"

Publish(r) ==
  /\ published < MaxPublished
  /\ published' = published + 1
  /\ theResQ' = Append(theResQ, r)
  /\ UNCHANGED <<wanted, success, theResult, timeLeft, phase>>

\* getResult, by itself or in the loop of getSuccessResult
GetResult(id, wait, loops) ==
  /\ phase = "idle"
  /\ wanted' = id /\ success' = loops
  /\ theResult' = NoResult
  /\ timeLeft' = wait
  /\ phase' = "wait"
  /\ UNCHANGED <<theResQ, published>>

\* Mutant: 0 is an identity like any other.
Fits_Exactly(r) == r.id = wanted

Fits(r) == wanted = 0 \/ r.id = wanted

\* waitItem returns an item: it is taken, or dropped and the wait goes on for
\* what is left of it.
WaitItem ==
  /\ phase = "wait" /\ timeLeft > 0 /\ theResQ # <<>>
  /\ theResQ' = Tail(theResQ)
  /\ IF Fits(Head(theResQ))
     THEN theResult' = Head(theResQ) /\ phase' = "got" /\ UNCHANGED timeLeft
     ELSE /\ theResult' = NoResult /\ timeLeft' \in {timeLeft, timeLeft - 1}
          /\ UNCHANGED phase
  /\ UNCHANGED <<published, wanted, success>>

\* waitItem times out, or too little time is left to call it.
WaitExpires ==
  /\ phase = "wait" /\ (timeLeft > 0 => theResQ = <<>>)
  /\ phase' = "got"
  /\ UNCHANGED <<theResQ, published, wanted, success, theResult, timeLeft>>

\* getResult returns; getSuccessResult calls it again until it has a success,
\* as nothing counts its loops.
ReturnResult(wait) ==
  /\ phase = "got"
  /\ IF success /\ ~theResult.ok
     THEN phase' = "wait" /\ theResult' = NoResult /\ timeLeft' = wait
     ELSE phase' = "idle" /\ UNCHANGED <<theResult, timeLeft>>
  /\ UNCHANGED <<theResQ, published, wanted, success>>

ResultCall == WaitItem \/ WaitExpires \/ ReturnResult(MaxWait)

ResultNext ==
  \/ \E r \in TestResults : Publish(r)
  \/ \E id \in ResultIds \cup {0}, wait \in 0..MaxWait, loops \in BOOLEAN :
       (loops => wait = MaxWait) /\ GetResult(id, wait, loops)
  \/ ResultCall

ResultFairness == WF_resultVars(ResultCall)
ResultSpec == ResultInit /\ [][ResultNext]_resultVars /\ ResultFairness

---------------------------------------------------------------------------
\* getSuccessResult returns with the success it waits for once that is in the
\* queue, however many other results and time outs come before it: its loop is
\* not bounded by theLoops (testresultq.h:148).
SuccessReceived ==
  (phase # "idle" /\ success
     /\ \E i \in DOMAIN theResQ : wanted \in {0, theResQ[i].id} /\ theResQ[i].ok)
    ~> phase = "idle"
=============================================================================
