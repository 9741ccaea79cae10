------------------------ MODULE BallotLeaderElection ------------------------
(***************************************************************************)
(* Ballot Leader Election (ballot_leader_election.rs): every election      *)
(* timeout ends a round of heartbeats and begins the next.  A server       *)
(* follows the largest ballot it hears of and takes over when nobody it    *)
(* hears is happy with a leader.                                           *)
(*                                                                         *)
(* Of Sequence Paxos the election sees the promise, which rises when the   *)
(* server starts to lead or receives a Prepare, and whether the server is  *)
(* a leader in the Accept phase.  Heartbeats may be delayed and lost: of   *)
(* those from one server to another the last is on its way, and an         *)
(* undelivered one is as good as lost.                                     *)
(***************************************************************************)
EXTENDS Ballots, Quorums

CONSTANTS Priority,       \* ServerConfig::leader_priority of each server
          NewPriority,    \* the priority a user may set later
          Links,          \* <<p, q>>: messages of p can reach q
          Timely,         \* election timeouts are longer than a round trip and
                          \* of the same length everywhere
          RoundLimit,     \* hb_round counts modulo RoundLimit (2^32 in the code)
          MaxN,           \* bound on the ballot numbers of takeovers
          CalmRounds,     \* how far calm counts
          Budget,         \* Budget[kind][p]: how often a kind of step may happen at p
          Disturbances    \* of how many kinds and servers in one behaviour

Bounded == {"restart", "set_priority", "try_become_leader", "prepare"}

ASSUME ElectionAssumption ==
  /\ Priority \in [Server -> Nat]
  /\ NewPriority \in Nat
  /\ Links \subseteq Server \X Server
  /\ Timely \in BOOLEAN
  /\ RoundLimit \in Nat \ {0}
  /\ MaxN \in Nat \ {0}
  /\ CalmRounds \in Nat
  /\ Budget \in [Bounded -> [Server -> Nat]]
  /\ Disturbances \in Nat

VARIABLES hb_round,           \* the current round of heartbeats
          heartbeat_replies,  \* the replies received that carry its number
          current_ballot,     \* the server's own ballot
          leader,             \* the ballot it follows
          happy,
          requests,           \* heartbeat requests on their way
          replies,            \* heartbeat replies on their way
          promise,            \* get_promise() of Sequence Paxos
          led,                \* history: ballots a server started to lead with
          retired,            \* history: those it led with before it last crashed
          calm,               \* history: election timeouts since the last disturbance
          budget

bleVars == << hb_round, heartbeat_replies, current_ballot, leader, happy >>
vars == << bleVars, requests, replies, promise, led, retired, calm, budget >>

Peers(p) == Server \ {p}

INITIAL_ROUND == 1
RECOVERY_ROUND == 0

HeartbeatReply(round, p) ==
  [round |-> round, ballot |-> current_ballot[p], leader |-> leader[p], happy |-> happy[p]]

NeverCalm == [p \in Server |-> 0]

\* The kinds and servers of which a step was taken.
Spent == {x \in Bounded \X Server : budget[x[1]][x[2]] < Budget[x[1]][x[2]]}

\* A step of a bounded kind, which disturbs the election.
Disturb(kind, p) ==
  /\ budget[kind][p] > 0
  /\ Cardinality(Spent \cup {<< kind, p >>}) <= Disturbances
  /\ budget' = [budget EXCEPT ![kind][p] = @ - 1]
  /\ calm' = NeverCalm

------------------------------------------------------------------------------
(* The end of a heartbeat round, as operators on the record of a server. *)

Me(p) == [replies |-> heartbeat_replies[p], current_ballot |-> current_ballot[p],
          leader |-> leader[p], happy |-> happy[p]]

\* Variant: the largest ballot among the replies, even if it is smaller.
follow_replies(me) ==
  LET ballots == {m.reply.ballot : m \in me.replies}
  IN  IF ballots = {}
        THEN me
        ELSE [me EXCEPT !.leader = CHOOSE b \in ballots : \A c \in ballots : c \preceq b]

\* The largest ballot among the replies, if it is larger than the leader's.
update_leader(me) ==
  LET larger == {b \in {m.reply.ballot : m \in me.replies} : me.leader \prec b}
  IN  IF larger = {}
        THEN me
        ELSE [me EXCEPT !.leader = CHOOSE b \in larger : \A c \in larger : c \preceq b]

\* A leader is happy with a quorum of followers, or if it hears of a larger
\* leader somebody is happy with; a follower if it hears its happy leader.
leader_is_happy(me, accepting) ==
  LET potential_followers == Cardinality({m \in me.replies : m.reply.leader \preceq me.current_ballot})
  IN  \/ IF accepting THEN is_accept_quorum(potential_followers + 1)
                      ELSE is_prepare_quorum(potential_followers + 1)
      \/ \E m \in me.replies : me.current_ballot \prec m.reply.leader /\ m.reply.happy

\* Variant: hearing the leader is enough, happy or not.
happy_if_heard(me, accepting) ==
  [me EXCEPT !.happy =
     IF me.leader = me.current_ballot
       THEN leader_is_happy(me, accepting)
       ELSE \E m \in me.replies : m.reply.ballot = me.leader]

update_happiness(me, accepting) ==
  [me EXCEPT !.happy =
     IF me.leader = me.current_ballot
       THEN leader_is_happy(me, accepting)
       ELSE \E m \in me.replies : m.reply.ballot = me.leader /\ m.reply.happy]

takes_over(me) ==
  /\ ~ me.happy
  /\ \A m \in me.replies : ~ m.reply.happy
  /\ is_prepare_quorum(Cardinality(me.replies) + 1)

check_takeover(me) ==
  LET b == [me.current_ballot EXCEPT !.n = me.leader.n + 1]
  IN  IF takes_over(me)
        THEN [me EXCEPT !.current_ballot = b, !.leader = b, !.happy = TRUE]
        ELSE me

\* Variant: a promise to another server is taken for the own ballot.
adopt_promise(p, me, prom) ==
  IF me.leader \prec prom
    THEN [me EXCEPT !.leader = prom, !.happy = TRUE, !.current_ballot = prom]
    ELSE me

\* Sequence Paxos may know a larger ballot than the heartbeats brought.
sync_with_promise(p, me, prom) ==
  IF me.leader \prec prom
    THEN [me EXCEPT !.leader = prom, !.happy = TRUE,
                    !.current_ballot = IF prom.pid = p THEN prom ELSE @]
    ELSE me

next_round(round) == (round + 1) % RoundLimit

\* The end of a round at p, up to the start of the next.
after_timeout(p, accepting) ==
  sync_with_promise(p, check_takeover(update_happiness(update_leader(Me(p)), accepting)), promise[p])

\* new_hb_round.  (The life only tells apart messages of p before and after a
\* crash; no code reads it.)
requests_of(p, round) ==
  {[from |-> p, to |-> q, round |-> round, life |-> budget["restart"][p]] :
     q \in {r \in Peers(p) : << p, r >> \in Links}}

------------------------------------------------------------------------------
(* Sequence Paxos, as far as the election sees it (external). *)

\* handle_leader: a ballot above the promise starts a round and is promised.
handle_leader(p, b) ==
  /\ promise' = IF promise[p] \prec b THEN [promise EXCEPT ![p] = b] ELSE promise
  /\ led' = IF promise[p] \prec b THEN led \cup {b} ELSE led

\* A Prepare of a round that some server leads reaches p.
handle_prepare(p, b) ==
  /\ << b.pid, p >> \in Links
  /\ promise[p] \prec b
  /\ Disturb("prepare", p)
  /\ promise' = [promise EXCEPT ![p] = b]
  /\ UNCHANGED << bleVars, requests, replies, led, retired >>

\* p can be in (Role::Leader, Phase::Accept): a quorum promised its round.
may_accept(p) ==
  /\ promise[p].pid = p
  /\ is_prepare_quorum(Cardinality({q \in Server : promise[p] \preceq promise[q]}))

------------------------------------------------------------------------------
(* The calls of the program *)

\* No heartbeat of p's current round is still on its way.
RoundTripDone(p) ==
  /\ ~ \E m \in requests : m.from = p /\ m.round = hb_round[p]
  /\ ~ \E m \in replies : m.to = p /\ m.reply.round = hb_round[p]

\* Every other server had as many timeouts since the last disturbance.
IsDue(p) == \A q \in Server : calm[p] <= calm[q]

\* election_timeout and hb_timeout; accepting says that Sequence Paxos is in
\* (Role::Leader, Phase::Accept).
election_timeout(p, accepting) ==
  LET me == after_timeout(p, accepting)
      round == next_round(hb_round[p])
  IN  /\ Timely => RoundTripDone(p) /\ IsDue(p)
      /\ accepting => may_accept(p)
      /\ me.current_ballot.n <= MaxN
      /\ current_ballot' = [current_ballot EXCEPT ![p] = me.current_ballot]
      /\ leader' = [leader EXCEPT ![p] = me.leader]
      /\ happy' = [happy EXCEPT ![p] = me.happy]
      /\ hb_round' = [hb_round EXCEPT ![p] = round]
      /\ heartbeat_replies' = [heartbeat_replies EXCEPT ![p] = {}]
      /\ requests' = {m \in requests : m.from # p} \cup requests_of(p, round)
      /\ IF me.leader = me.current_ballot
           THEN handle_leader(p, me.current_ballot)
           ELSE UNCHANGED << promise, led >>
      /\ calm' = [calm EXCEPT ![p] = IF @ < CalmRounds THEN @ + 1 ELSE @]
      /\ UNCHANGED << replies, retired, budget >>

handle_request(p, m) ==
  LET reply == [from |-> p, to |-> m.from, life |-> m.life, reply |-> HeartbeatReply(m.round, p)]
  IN  /\ m.to = p
      /\ requests' = requests \ {m}
      /\ replies' = IF << p, m.from >> \in Links
                    THEN {r \in replies : << r.from, r.to >> # << p, m.from >>} \cup {reply}
                    ELSE replies
      /\ UNCHANGED << bleVars, promise, led, retired, calm, budget >>

is_current_round(p, reply) == reply.round = hb_round[p]

handle_reply(p, m) ==
  /\ m.to = p
  /\ replies' = replies \ {m}
  /\ heartbeat_replies' =
       IF is_current_round(p, m.reply)
         THEN [heartbeat_replies EXCEPT ![p] = @ \cup {m}]
         ELSE heartbeat_replies
  /\ UNCHANGED << hb_round, current_ballot, leader, happy, requests, promise, led, retired, calm, budget >>

set_priority(p) ==
  /\ Disturb("set_priority", p)
  /\ current_ballot' = [current_ballot EXCEPT ![p].priority = NewPriority]
  /\ UNCHANGED << hb_round, heartbeat_replies, leader, happy, requests, replies, promise, led, retired >>

try_become_leader(p) ==
  LET b == [current_ballot[p] EXCEPT !.n = promise[p].n + 1]
  IN  /\ Disturb("try_become_leader", p)
      /\ b.n <= MaxN
      /\ handle_leader(p, b)
      /\ UNCHANGED << bleVars, requests, replies, retired >>

\* Variant: a recovered server starts over with its first ballot.
recovery_n_reused(prom) == INITIAL_ROUND

\* BallotLeaderElection::with: a server that promised before is no candidate.
recovery_n(prom) == IF prom = DefaultBallot THEN INITIAL_ROUND ELSE RECOVERY_ROUND

restart(p) ==
  LET b == [n |-> recovery_n(promise[p]), priority |-> Priority[p], pid |-> p]
  IN  /\ Disturb("restart", p)
      /\ current_ballot' = [current_ballot EXCEPT ![p] = b]
      /\ leader' = [leader EXCEPT ![p] = IF promise[p] = DefaultBallot THEN b ELSE promise[p]]
      /\ happy' = [happy EXCEPT ![p] = TRUE]
      /\ hb_round' = [hb_round EXCEPT ![p] = next_round(0)]
      /\ heartbeat_replies' = [heartbeat_replies EXCEPT ![p] = {}]
      /\ requests' = {m \in requests : m.from # p} \cup requests_of(p, next_round(0))'
      /\ retired' = [retired EXCEPT ![p] = {c \in led : c.pid = p}]
      /\ UNCHANGED << replies, promise, led >>

------------------------------------------------------------------------------
InitialBallot(p) == [n |-> INITIAL_ROUND, priority |-> Priority[p], pid |-> p]

Init ==
  /\ budget = Budget
  /\ hb_round = [p \in Server |-> next_round(0)]
  /\ heartbeat_replies = [p \in Server |-> {}]
  /\ current_ballot = [p \in Server |-> InitialBallot(p)]
  /\ leader = [p \in Server |-> InitialBallot(p)]
  /\ happy = [p \in Server |-> TRUE]
  /\ requests = UNION {requests_of(p, next_round(0)) : p \in Server}
  /\ replies = {}
  /\ promise = [p \in Server |-> DefaultBallot]
  /\ led = {}
  /\ retired = [p \in Server |-> {}]
  /\ calm = NeverCalm

Next ==
  \/ \E p \in Server, accepting \in BOOLEAN : election_timeout(p, accepting)
  \/ \E p \in Server : \E m \in requests : handle_request(p, m)
  \/ \E p \in Server : \E m \in replies : handle_reply(p, m)
  \/ \E p \in Server : \E b \in led : handle_prepare(p, b)
  \/ \E p \in Server : set_priority(p)
  \/ \E p \in Server : try_become_leader(p)
  \/ \E p \in Server : restart(p)

Spec == Init /\ [][Next]_vars

------------------------------------------------------------------------------
(* Properties *)

Reply == [from : Server, to : Server, life : Nat,
          reply : [round : Nat, ballot : Ballot, leader : Ballot, happy : BOOLEAN]]

\* Every variable has its type; a server's own ballot carries its pid.
TypeOK ==
  /\ hb_round \in [Server -> Nat]
  /\ heartbeat_replies \in [Server -> SUBSET Reply]
  /\ current_ballot \in [Server -> Ballot]
  /\ \A p \in Server : current_ballot[p].pid = p
  /\ leader \in [Server -> Ballot]
  /\ happy \in [Server -> BOOLEAN]
  /\ requests \subseteq [from : Server, to : Server, round : Nat, life : Nat]
  /\ replies \subseteq Reply
  /\ promise \in [Server -> Ballot]
  /\ led \subseteq Ballot
  /\ retired \in [Server -> SUBSET Ballot]
  /\ calm \in [Server -> Nat]
  /\ budget \in [Bounded -> [Server -> Nat]]

\* "Prevents a recovered server from retaining BLE leadership with the same
\* ballot": with() and hb_timeout never leave a server the leader of a ballot it
\* led with before it crashed.
NoRetainedLeadership ==
  \A p \in Server : leader[p] = current_ballot[p] => current_ballot[p] \notin retired[p]

\* The ballot a server follows never gets smaller while it is up: update_leader,
\* check_takeover and the synchronisation with the promise only move forward.
LeaderAdvances ==
  [][\A p \in Server : budget'["restart"][p] = budget["restart"][p] => leader[p] \preceq leader'[p]]_vars

\* A server that hears a quorum and is heard by it.
QuorumConnected(p) ==
  is_prepare_quorum(Cardinality({q \in Peers(p) : << p, q >> \in Links /\ << q, p >> \in Links}) + 1)

\* p leads, is happy, and everyone it is connected to follows it.
Leads(p) ==
  /\ leader[p] = current_ballot[p]
  /\ happy[p]
  /\ \A q \in Peers(p) : << p, q >> \in Links => leader[q] = current_ballot[p]

\* CalmRounds heartbeat rounds after the last crash or call of the user, however
\* the servers are connected, a server connected to a quorum leads and everyone
\* it reaches follows it: update_leader, update_happiness and check_takeover
\* come to rest.
LeaderOnceCalm ==
  (\A p \in Server : calm[p] = CalmRounds) =>
    \E p \in Server : QuorumConnected(p) /\ Leads(p)
==============================================================================
