------------------------------ MODULE OmniPaxos ------------------------------
(***************************************************************************)
(* The OmniPaxos service (omni_paxos.rs): each server runs Sequence Paxos  *)
(* and the Ballot Leader Election.  The election hands its winner to       *)
(* Sequence Paxos and is told at every timeout what Sequence Paxos         *)
(* promised and whether it accepts; nothing else connects the two.  Calls  *)
(* that concern one of the two are left to its own module, but for those   *)
(* that this composition is about.                                         *)
(*                                                                         *)
(* Here the promise of BallotLeaderElection is the one in the storage, and *)
(* the ballots of SequencePaxos are those the election comes up with.      *)
(***************************************************************************)
EXTENDS SequencePaxos, Functions

CONSTANTS Priority, NewPriority, Timely, RoundLimit, MaxN, CalmRounds,
          ElectionBudget, ElectionDisturbances   \* Budget, Disturbances of the election

ASSUME ServiceAssumption == Priority \in [Server -> Nat]

VARIABLES hb_round, heartbeat_replies, current_ballot, leader, happy,
          requests, replies, led, retired, calm, election_budget

BLE == INSTANCE BallotLeaderElection WITH
         promise <- [p \in Server |-> storage[p].promise],
         budget <- election_budget,
         Budget <- ElectionBudget,
         Disturbances <- ElectionDisturbances

electionVars == << hb_round, heartbeat_replies, current_ballot, leader, happy,
                   requests, replies, led, retired, calm, election_budget >>
omniVars == << vars, electionVars >>

accepting(p) == state[p] = << "Leader", "Accept" >>

\* The ballot is news to Sequence Paxos, otherwise handle_leader returns early.
is_new(p, b) == leader_state[p].n_leader \prec b /\ storage[p].promise \prec b

------------------------------------------------------------------------------
\* The ballot that hb_timeout returns is handed to Sequence Paxos.
election_timeout(p) ==
  LET me == BLE!after_timeout(p, accepting(p))
  IN  /\ p \notin panicked
      /\ IF me.leader = me.current_ballot /\ is_new(p, me.current_ballot)
           THEN handle_leader(p, me.current_ballot)
           ELSE UNCHANGED vars
      /\ BLE!election_timeout(p, accepting(p))

\* The election learns of it from the promise, at the next timeout.
try_become_leader(p) ==
  LET b == [current_ballot[p] EXCEPT !.n = storage[p].promise.n + 1]
  IN  /\ p \notin panicked
      /\ handle_leader(p, b)
      /\ BLE!try_become_leader(p)

\* handle_incoming, of a message of q for Sequence Paxos, a heartbeat request of q
\* and a heartbeat reply of q.
handle_paxos(p, q) == handle(p, q) /\ UNCHANGED electionVars

from(q, p, messages) == {m \in messages : m.from = q /\ m.to = p}

handle_request(p, q) ==
  /\ p \notin panicked
  /\ from(q, p, requests) # {}
  /\ UNCHANGED vars
  /\ \E m \in from(q, p, requests) : BLE!handle_request(p, m)

handle_reply(p, q) ==
  /\ p \notin panicked
  /\ from(q, p, replies) # {}
  /\ UNCHANGED vars
  /\ \E m \in from(q, p, replies) : BLE!handle_reply(p, m)

omni_append(p, v) == append(p, v) /\ UNCHANGED electionVars

\* Both protocols recover from the same storage.
recover(p) == restart(p) /\ BLE!restart(p)

OmniInit ==
  /\ Init
  /\ BLE!Init

OmniNext ==
  \E p \in Server :
    \/ election_timeout(p)
    \/ \E q \in Peers(p) : handle_paxos(p, q)
    \/ \E q \in Peers(p) : handle_request(p, q) \/ handle_reply(p, q)
    \/ try_become_leader(p)
    \/ \E v \in Value : omni_append(p, v)
    \/ recover(p)

can_time_out(p) == p \notin panicked /\ BLE!RoundTripDone(p) /\ BLE!IsDue(p)

can_handle(p, q) == p \notin panicked /\ net[q][p] # << >>

\* The clocks tick and the messages are handled (nothing loses one here).  For
\* the larger steps this is weak fairness with the condition that enables them
\* spelled out, which spares TLC from finding it.
OmniFairness ==
  \A p \in Server :
    /\ []<>(~ can_time_out(p)) \/ []<><< election_timeout(p) >>_omniVars
    /\ \A q \in Peers(p) :
         /\ []<>(~ can_handle(p, q)) \/ []<><< handle_paxos(p, q) >>_omniVars
         /\ WF_omniVars(handle_request(p, q))
         /\ WF_omniVars(handle_reply(p, q))

OmniSpec == OmniInit /\ [][OmniNext]_omniVars /\ OmniFairness

------------------------------------------------------------------------------
(* Properties *)

\* What the election is told and what it hears of: a server that accepts has a
\* read quorum of promises for its round (hb_timeout then asks for a write
\* quorum of followers only), and every promised round was started by a server.
ElectionSeesRounds ==
  \A p \in Server :
    /\ p \notin panicked /\ accepting(p) => BLE!may_accept(p)
    /\ storage[p].promise \in led \cup {DefaultBallot}

\* p accepts in the round that every other server follows it in, and the
\* election agrees.
LedBy(p) ==
  /\ accepting(p)
  /\ leader[p] = current_ballot[p]
  /\ \A q \in Server :
       /\ storage[q].promise = leader_state[p].n_leader
       /\ leader[q] = leader_state[p].n_leader
       /\ q # p => state[q] = << "Follower", "Accept" >>

\* After the last crash or takeover, election and replication
\* come to rest: one server leads for good and all others follow it in its
\* Accept phase (election_timeout, handle_leader, recovery with PrepareReq).
Settles == \E p \in Server : <>[]LedBy(p)

\* Entry e is in a log, in a buffer or on its way.
Somewhere(e) ==
  \E p \in Server :
    \/ e \in Range(storage[p].log \o storage[p].batched_entries \o buffered_proposals[p])
    \/ \E q \in Server : \E i \in DOMAIN net[p][q] :
         LET m == net[p][q][i]
         IN  \/ m.type \in {"AcceptDecide", "ProposalForward"} /\ e \in Range(m.entries)
             \/ /\ m.type \in {"AcceptSync", "Promise"}
                /\ m.log_sync # None
                /\ e \in Range(m.log_sync.suffix)

\* Through every election a proposal is forwarded, buffered, adopted or sent
\* again until all servers have decided it; it vanishes only with a crash that
\* took every copy (propose_entry, forward_proposals, handle_majority_promises,
\* handle_acceptsync).
DecidedOrLost ==
  \A x \in Proposals :
    x \in proposed ~>
      \/ /\ \E p \in Server : << "restart", p >> \in Spent
         /\ ~ Somewhere(x[2])
      \/ \A q \in Server : \E i \in 1 .. storage[q].decided_idx :
           i \in Held(storage[q]) /\ EntryAt(storage[q], i) = x[2]
==============================================================================
