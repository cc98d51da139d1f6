---------------------------- MODULE PositionCalls ----------------------------
(***************************************************************************)
(* SplitPosition, MergePositions and RedeemPositions of the Polymarket     *)
(* connector (connector.go), which answer at once and report by an event:  *)
(* a goroutine sends the transaction through the relayer (relayer.go), or  *)
(* straight to the chain (ctf.go), and waits until it is settled.  Every   *)
(* request of the goroutine runs under the caller's ctx, which may end at  *)
(* any time after the answer.                                              *)
(*                                                                         *)
(* A call makes one transaction at most, so both have one name.            *)
(***************************************************************************)
EXTENDS Naturals, Sequences

CONSTANTS PositionIDs, \* the calls
          MaxPolls     \* bound: the polls that fit in two minutes

ASSUME PositionAssumption == MaxPolls \in Nat \ {0}

VARIABLES
  path,      \* configured: "paper", "relayer", "rpc" or "none"
  position,  \* each call: its operation, where it is, the polls it has made
  relayed,   \* what the relayer says of each transaction: its state, and whether it has a hash
  onChain,   \* where the chain has it
  events,    \* the events that reached the dispatch channel [call, op, success], in order
  dispatched \* history: the calls that have called DispatchEvent

reportVars == <<events, dispatched>>
positionVars == <<path, position, relayed, onChain, reportVars>>

Idle == [op |-> "none", pc |-> "idle", polls |-> 0]
Unsent == [state |-> "unknown", hash |-> FALSE]

PositionsInit ==
  /\ path \in {"paper", "relayer", "rpc", "none"}
  /\ position = [c \in PositionIDs |-> Idle]
  /\ relayed = [c \in PositionIDs |-> Unsent]
  /\ onChain = [c \in PositionIDs |-> "absent"]
  /\ events = <<>> /\ dispatched = {}

At(c, pc) == position[c].pc = pc
Goto(c, pc) == position' = [position EXCEPT ![c].pc = pc]
-----------------------------------------------------------------------------
(* The calls                                                               *)

\* The operations differ in their contract call and in the event.  Paper mode answers
\* nil and reports nothing; a missing key, an unknown market, or neither relayer nor
\* RPC URL, are errors; otherwise a goroutine goes on.
PositionCall(c, op) ==
  /\ At(c, "idle")
  /\ \E pc \in IF path = "paper" THEN {"answered"}
               ELSE {"refused"} \cup IF path = "none" THEN {} ELSE {"prepare"} :
       position' = [position EXCEPT ![c].op = op, ![c].pc = pc]
  /\ UNCHANGED <<path, relayed, onChain, reportVars>>

SplitPosition(c) == PositionCall(c, "split")
MergePositions(c) == PositionCall(c, "merge")
RedeemPositions(c) == PositionCall(c, "redeem")

\* The goroutine calls DispatchEvent and ends; a full channel drops the event.  What the
\* call does after Stop is EventPipeline's subject.
Report(c, success) ==
  /\ \/ events' = Append(events, [call |-> c, op |-> position[c].op, success |-> success])
     \/ UNCHANGED events
  /\ dispatched' = dispatched \cup {c}
  /\ Goto(c, "answered")

\* The goroutine goes on, or ends with an error.
Proceed(c, pc) ==
  \/ Goto(c, pc) /\ UNCHANGED reportVars
  \/ Report(c, FALSE)
-----------------------------------------------------------------------------
(* The relayer                                                             *)

\* getRelayPayload: the address and the nonce to sign.
RelayPayload(c) ==
  /\ At(c, "prepare") /\ path = "relayer"
  /\ Proceed(c, "submit")
  /\ UNCHANGED <<path, relayed, onChain>>

\* submitTransaction; the relayer's answer may be lost.
SubmitRelayed(c) ==
  /\ At(c, "submit") /\ path = "relayer"
  /\ \/ relayed' = [relayed EXCEPT ![c].state = "new"] /\ Proceed(c, "poll")
     \/ Report(c, FALSE) /\ UNCHANGED relayed
  /\ UNCHANGED <<path, onChain>>

\* Mutant: a transaction with a hash is settled.
HashIsEnough(c) == relayed[c].hash \/ relayed[c].state = "failed"

\* The switch of pollUntilConfirmed: MINED, CONFIRMED, FAILED and INVALID end it.
Settled(c) == relayed[c].state \in {"mined", "failed"}

\* One round of pollUntilConfirmed: an answer other than 200 is "not found yet", a
\* request that fails or a ctx that has ended is an error, and a settled transaction
\* is a success if it has a hash, whatever its state.
Poll(c) ==
  /\ At(c, "poll") /\ position[c].polls < MaxPolls
  /\ \/ position' = [position EXCEPT ![c].polls = @ + 1] /\ UNCHANGED reportVars
     \/ Report(c, FALSE)
     \/ Settled(c) /\ Report(c, relayed[c].hash)
  /\ UNCHANGED <<path, relayed, onChain>>

\* Mutant: the deadline does not end the loop.
PollOn(c) ==
  /\ At(c, "poll") /\ position[c].polls = MaxPolls
  /\ position' = [position EXCEPT ![c].polls = 0]
  /\ UNCHANGED <<path, relayed, onChain, reportVars>>

\* Two minutes have passed.
PollTimeout(c) ==
  /\ At(c, "poll") /\ position[c].polls = MaxPolls
  /\ Report(c, FALSE)
  /\ UNCHANGED <<path, relayed, onChain>>

submitProxyCall(c) == RelayPayload(c) \/ SubmitRelayed(c) \/ Poll(c) \/ PollTimeout(c)

\* Each encodes its own contract call, and leaves the rest to submitProxyCall.
SplitPositionViaRelayer(c) == position[c].op = "split" /\ submitProxyCall(c)
MergePositionsViaRelayer(c) == position[c].op = "merge" /\ submitProxyCall(c)
RedeemPositionsViaRelayer(c) == position[c].op = "redeem" /\ submitProxyCall(c)
-----------------------------------------------------------------------------
(* The direct path: CTFClient                                              *)

NewCTFClient(c) ==
  /\ At(c, "prepare") /\ path = "rpc"
  /\ Proceed(c, "submit")
  /\ UNCHANGED <<path, relayed, onChain>>

\* Transact; it can fail although the node has taken the transaction.
SubmitDirect(c) ==
  /\ At(c, "submit") /\ path = "rpc"
  /\ \/ onChain' = [onChain EXCEPT ![c] = "pending"] /\ Proceed(c, "wait")
     \/ Report(c, FALSE) /\ UNCHANGED onChain
  /\ UNCHANGED <<path, relayed>>

\* WaitMined returns any receipt: that of a reverted transaction has a block as well.
WaitMined(c) ==
  /\ At(c, "wait") /\ onChain[c] \in {"done", "reverted"}
  /\ Report(c, TRUE)
  /\ UNCHANGED <<path, relayed, onChain>>

\* The caller's ctx ends.
WaitCanceled(c) ==
  /\ At(c, "wait")
  /\ Report(c, FALSE)
  /\ UNCHANGED <<path, relayed, onChain>>

Transacts(c) == SubmitDirect(c) \/ WaitMined(c)

\* The methods of CTFClient differ in the contract call that they send.
CTFSplitPosition(c) == position[c].op = "split" /\ Transacts(c)
CTFMergePositions(c) == position[c].op = "merge" /\ Transacts(c)
CTFRedeemPositions(c) == position[c].op = "redeem" /\ Transacts(c)
-----------------------------------------------------------------------------
(* The relayer's and the chain's side                                      *)

\* The relayer sends the transaction, or gives it up.
RelayerSends(c) ==
  /\ relayed[c].state = "new" /\ onChain[c] = "absent"
  /\ \/ relayed' = [relayed EXCEPT ![c].hash = TRUE] /\ onChain' = [onChain EXCEPT ![c] = "pending"]
     \/ relayed' = [relayed EXCEPT ![c].state = "failed"] /\ UNCHANGED onChain
  /\ UNCHANGED <<path, position, reportVars>>

\* It reports a transaction that is in a block as mined, or as failed even so.
RelayerReports(c) ==
  /\ relayed[c].state = "new" /\ onChain[c] \in {"done", "reverted"}
  /\ \E s \in {"mined", "failed"} : relayed' = [relayed EXCEPT ![c].state = s]
  /\ UNCHANGED <<path, position, onChain, reportVars>>

\* A block takes the transaction.
Mine(c) ==
  /\ onChain[c] = "pending"
  /\ \E s \in {"done", "reverted"} : onChain' = [onChain EXCEPT ![c] = s]
  /\ UNCHANGED <<path, position, relayed, reportVars>>
-----------------------------------------------------------------------------
Works(c) ==
  \/ SplitPositionViaRelayer(c) \/ MergePositionsViaRelayer(c) \/ RedeemPositionsViaRelayer(c)
  \/ NewCTFClient(c)
  \/ CTFSplitPosition(c) \/ CTFMergePositions(c) \/ CTFRedeemPositions(c)

PositionsNext ==
  \E c \in PositionIDs :
    \/ SplitPosition(c) \/ MergePositions(c) \/ RedeemPositions(c)
    \/ Works(c) \/ WaitCanceled(c)
    \/ RelayerSends(c) \/ RelayerReports(c) \/ Mine(c)

\* A goroutine runs, and its requests return: the relayer's client has a timeout.
PositionsFairness == \A c \in PositionIDs : WF_positionVars(Works(c))

PositionsSpec == PositionsInit /\ [][PositionsNext]_positionVars /\ PositionsFairness
-----------------------------------------------------------------------------
(* Properties                                                              *)

\* Every variable has its type.
PositionsTypeOK ==
  /\ path \in {"paper", "relayer", "rpc", "none"}
  /\ position \in [PositionIDs ->
       [op : {"none", "split", "merge", "redeem"}, polls : 0 .. MaxPolls,
        pc : {"idle", "answered", "refused", "prepare", "submit", "poll", "wait"}]]
  /\ relayed \in [PositionIDs -> [state : {"unknown", "new", "mined", "failed"}, hash : BOOLEAN]]
  /\ onChain \in [PositionIDs -> {"absent", "pending", "done", "reverted"}]
  /\ \A i \in DOMAIN events :
       events[i] \in [call : PositionIDs, op : {"split", "merge", "redeem"}, success : BOOLEAN]
  /\ dispatched \subseteq PositionIDs

\* An event is what became of its own call: a call has one event at most, of its own
\* kind, one that answered with an error has none, and one that reports success names a
\* transaction that is in a block.
EventsTruthful ==
  /\ \A i \in DOMAIN events :
       LET c == events[i].call IN
       /\ At(c, "answered")
       /\ events[i].op = position[c].op
       /\ events[i].success => onChain[c] \in {"done", "reverted"}
  /\ \A i, j \in DOMAIN events : events[i].call = events[j].call => i = j

\* A call that goes on in the background calls DispatchEvent in the end, however the
\* relayer behaves; on the direct path, unless its transaction stays pending for ever.
CallsReported ==
  \A c \in PositionIDs :
    (At(c, "prepare") ~> c \in dispatched) \/ <>[](At(c, "wait") /\ onChain[c] = "pending")
=============================================================================
