--------------------- MODULE BallotLeaderElectionProofs ---------------------
(***************************************************************************)
(* For every cluster, every set of links, any loss and delay of heartbeats *)
(* and any number of crashes, changes of priority and takeovers: the       *)
(* variables of BallotLeaderElection keep their types, the ballot a server *)
(* follows never gets smaller while it is up (LeaderAdvances), and no      *)
(* server leads again with a ballot it led with before it crashed          *)
(* (NoRetainedLeadership).                                                 *)
(*                                                                         *)
(* NoRetainedLeadership says nothing of a server that follows a ballot it  *)
(* led with, as every one that recovers does.  The invariant says why it   *)
(* cannot come to lead it: until it takes over, its own ballot has number  *)
(* 0, and whatever gives it another number makes it follow a ballot larger *)
(* than all it ever led with.                                              *)
(***************************************************************************)
EXTENDS BallotLeaderElection, BallotsProofs

\* Finitely many replies are collected in a round, so they have a largest ballot.
RepliesInv == \A p \in Server : IsFiniteSet(heartbeat_replies[p])

\* A ballot that is led is no initial or recovered one of somebody else, and its
\* server has promised it.
LedInv ==
  \A b \in led : b.pid \in Server /\ b.n > 0 /\ b \preceq promise[b.pid]

\* Whom a server promises or follows has a ballot with a number.
FollowedInv ==
  \A p \in Server :
    /\ promise[p] = DefaultBallot \/ promise[p].n > 0
    /\ leader[p].n > 0

\* A server follows a ballot that is not below those it led with before it
\* crashed, and above them as soon as its own ballot has a number again.
RetiredInv ==
  \A p \in Server : \A b \in retired[p] :
    /\ b \preceq leader[p]
    /\ current_ballot[p].n # RECOVERY_ROUND => b \prec leader[p]

\* The inductive invariant.
Inv == TypeOK /\ RepliesInv /\ LedInv /\ FollowedInv /\ RetiredInv

------------------------------------------------------------------------------
(* The end of a round, step by step. *)

Records ==
  [replies : SUBSET Reply, current_ballot : Ballot, leader : Ballot, happy : BOOLEAN]

\* The record of server p.
RecordOK(p, me) ==
  /\ me \in Records
  /\ IsFiniteSet(me.replies)
  /\ me.current_ballot.pid = p
  /\ me.leader.n > 0

\* From me to new the leader gets larger, or nothing changes but the happiness.
Advances(me, new) ==
  \/ me.leader \prec new.leader
  \/ me.leader = new.leader /\ me.current_ballot = new.current_ballot

\* Steps that only advance can follow each other.
LEMMA AdvancesTransitive ==
  ASSUME NEW a \in Records, NEW b \in Records, NEW c \in Records,
         Advances(a, b), Advances(b, c)
  PROVE  Advances(a, c)
<1>1. a.leader \in Ballot /\ b.leader \in Ballot /\ c.leader \in Ballot
  BY DEF Records
<1> QED BY <1>1, BallotStrictlyTransitive DEF Advances, \preceq

\* update_leader follows a ballot of the replies, which is larger.
LEMMA UpdateLeaderOK ==
  ASSUME NEW p, NEW me, RecordOK(p, me)
  PROVE  RecordOK(p, update_leader(me)) /\ Advances(me, update_leader(me))
<1> DEFINE larger == {b \in {m.reply.ballot : m \in me.replies} : me.leader \prec b}
           best == CHOOSE b \in larger : \A c \in larger : c \preceq b
<1>1. CASE larger = {}
  BY <1>1 DEF update_leader, Advances
<1>2. CASE larger # {}
  <2>1. \A m \in me.replies : m.reply.ballot \in Ballot
    BY DEF RecordOK, Records, Reply
  <2>2. \E b \in larger : \A c \in larger : c \preceq b
    <3> DEFINE f == [m \in me.replies |-> m.reply.ballot]
    <3>1. f \in [me.replies -> Ballot] /\ larger \in SUBSET {f[m] : m \in me.replies}
      BY <2>1
    <3>2. IsFiniteSet(me.replies)
      BY DEF RecordOK
    <3> HIDE DEF f, larger
    <3> QED BY <1>2, <3>1, <3>2, LargestBallotOfFinite
  <2>3. best \in larger
    BY <2>2
  <2>4. best \in Ballot /\ me.leader \prec best
    BY <2>1, <2>3
  <2> HIDE DEF best
  <2>5. best.n > 0
    BY <2>4 DEF RecordOK, Records, Ballot, \prec
  <2>6. update_leader(me) = [me EXCEPT !.leader = best]
    BY <1>2 DEF update_leader, best
  <2>7. /\ update_leader(me) \in Records
        /\ update_leader(me).leader = best
        /\ update_leader(me).current_ballot = me.current_ballot
        /\ update_leader(me).replies = me.replies
    BY <2>4, <2>6 DEF RecordOK, Records
  <2> QED BY <2>4, <2>5, <2>7 DEF RecordOK, Advances
<1> QED BY <1>1, <1>2

\* update_happiness changes nothing else.
LEMMA UpdateHappinessOK ==
  ASSUME NEW p, NEW me, RecordOK(p, me), NEW accepting \in BOOLEAN
  PROVE  /\ RecordOK(p, update_happiness(me, accepting))
         /\ Advances(me, update_happiness(me, accepting))
<1> DEFINE new == update_happiness(me, accepting)
           h == IF me.leader = me.current_ballot
                  THEN leader_is_happy(me, accepting)
                  ELSE \E m \in me.replies : m.reply.ballot = me.leader /\ m.reply.happy
<1>1. new = [me EXCEPT !.happy = h]
  BY DEF update_happiness
<1>2. h \in BOOLEAN
  <2>1. leader_is_happy(me, accepting) \in BOOLEAN
    BY DEF leader_is_happy
  <2> QED BY <2>1
<1> HIDE DEF h
<1>3. /\ new \in Records /\ new.leader = me.leader
      /\ new.current_ballot = me.current_ballot /\ new.replies = me.replies
  BY <1>1, <1>2 DEF RecordOK, Records
<1> QED BY <1>3 DEF RecordOK, Advances

\* check_takeover takes the next number after the leader's.
LEMMA CheckTakeoverOK ==
  ASSUME NEW p, NEW me, RecordOK(p, me)
  PROVE  RecordOK(p, check_takeover(me)) /\ Advances(me, check_takeover(me))
<1> DEFINE b == [me.current_ballot EXCEPT !.n = me.leader.n + 1]
           new == check_takeover(me)
<1>1. CASE takes_over(me)
  <2>1. b \in Ballot /\ b.n = me.leader.n + 1 /\ b.pid = p
    BY DEF RecordOK, Records, Ballot
  <2>2. new = [me EXCEPT !.current_ballot = b, !.leader = b, !.happy = TRUE]
    BY <1>1 DEF check_takeover
  <2> HIDE DEF b
  <2>3. new \in Records /\ new.leader = b /\ new.current_ballot = b /\ new.replies = me.replies
    BY <2>1, <2>2 DEF RecordOK, Records
  <2>4. me.leader \prec b /\ b.n > 0
    BY <2>1 DEF RecordOK, Records, Ballot, \prec
  <2> QED BY <2>1, <2>3, <2>4 DEF RecordOK, Advances
<1>2. CASE ~ takes_over(me)
  BY <1>2 DEF check_takeover, Advances
<1> QED BY <1>1, <1>2

\* Sequence Paxos brings a larger ballot only, its own to its own server.
LEMMA SyncWithPromiseOK ==
  ASSUME NEW p, NEW me, RecordOK(p, me),
         NEW prom \in Ballot, prom = DefaultBallot \/ prom.n > 0
  PROVE  /\ RecordOK(p, sync_with_promise(p, me, prom))
         /\ Advances(me, sync_with_promise(p, me, prom))
<1> DEFINE new == sync_with_promise(p, me, prom)
           own == IF prom.pid = p THEN prom ELSE me.current_ballot
<1>1. CASE me.leader \prec prom
  <2>1. prom.n > 0
    BY <1>1 DEF RecordOK, Records, Ballot, \prec
  <2>2. own \in Ballot /\ own.pid = p
    BY DEF RecordOK, Records
  <2>3. new = [me EXCEPT !.leader = prom, !.happy = TRUE, !.current_ballot = own]
    BY <1>1 DEF sync_with_promise, RecordOK, Records
  <2> HIDE DEF own
  <2>4. new \in Records /\ new.leader = prom /\ new.current_ballot = own /\ new.replies = me.replies
    BY <2>2, <2>3 DEF RecordOK, Records
  <2> QED BY <1>1, <2>1, <2>2, <2>4 DEF RecordOK, Advances
<1>2. CASE ~ (me.leader \prec prom)
  BY <1>2 DEF sync_with_promise, Advances
<1> QED BY <1>1, <1>2

\* hb_timeout as a whole.
LEMMA AfterTimeoutOK ==
  ASSUME Inv, NEW p \in Server, NEW accepting \in BOOLEAN
  PROVE  /\ RecordOK(p, after_timeout(p, accepting))
         /\ Advances(Me(p), after_timeout(p, accepting))
<1> DEFINE a == update_leader(Me(p))
           b == update_happiness(a, accepting)
           c == check_takeover(b)
           d == after_timeout(p, accepting)
<1>1. RecordOK(p, Me(p))
  BY DEF Inv, TypeOK, RepliesInv, FollowedInv, RecordOK, Records, Me
<1>2. promise[p] \in Ballot /\ (promise[p] = DefaultBallot \/ promise[p].n > 0)
  BY DEF Inv, TypeOK, FollowedInv
<1> HIDE DEF a, b, c, d
<1>3. RecordOK(p, a) /\ Advances(Me(p), a)
  BY <1>1, UpdateLeaderOK DEF a
<1>4. RecordOK(p, b) /\ Advances(a, b)
  BY <1>3, UpdateHappinessOK DEF b
<1>5. RecordOK(p, c) /\ Advances(b, c)
  BY <1>4, CheckTakeoverOK DEF c
<1>6. d = sync_with_promise(p, c, promise[p])
  BY DEF after_timeout, a, b, c, d
<1>7. RecordOK(p, d) /\ Advances(c, d)
  BY <1>2, <1>5, <1>6, SyncWithPromiseOK
<1>8. Advances(Me(p), d)
  BY <1>1, <1>3, <1>4, <1>5, <1>7, AdvancesTransitive DEF RecordOK
<1> QED BY <1>7, <1>8 DEF d

------------------------------------------------------------------------------
(* Each action preserves the invariant and moves the leader forward. *)

\* Nobody who stays up follows a smaller ballot than before.
LeaderStep ==
  \A p \in Server : budget'["restart"][p] = budget["restart"][p] => leader[p] \preceq leader'[p]

\* A step of a bounded kind at p counts against the budget of p only.
LEMMA DisturbOK ==
  ASSUME TypeOK, NEW kind \in Bounded, NEW p \in Server, Disturb(kind, p)
  PROVE  /\ budget' \in [Bounded -> [Server -> Nat]]
         /\ calm' \in [Server -> Nat]
         /\ \A q \in Server : budget'["restart"][q] = budget["restart"][q] <=> ~ (kind = "restart" /\ q = p)
<1>1. /\ budget \in [Bounded -> [Server -> Nat]] /\ budget[kind] \in [Server -> Nat]
      /\ budget[kind][p] \in Nat /\ budget[kind][p] > 0
  BY DEF TypeOK, Disturb
<1>2. budget' = [budget EXCEPT ![kind] = [budget[kind] EXCEPT ![p] = budget[kind][p] - 1]]
  BY <1>1 DEF Disturb
<1>3. budget[kind][p] - 1 \in Nat /\ budget[kind][p] - 1 # budget[kind][p]
  BY <1>1
<1>4. "restart" \in Bounded
  BY DEF Bounded
<1>5. budget' \in [Bounded -> [Server -> Nat]]
  BY <1>1, <1>2, <1>3
<1>6. calm' \in [Server -> Nat]
  BY DEF Disturb, NeverCalm
<1>7. \A q \in Server : budget'["restart"][q] =
        IF kind = "restart" /\ q = p THEN budget[kind][p] - 1 ELSE budget["restart"][q]
  BY <1>1, <1>2, <1>4
<1>8. \A q \in Server : budget'["restart"][q] = budget["restart"][q] <=> ~ (kind = "restart" /\ q = p)
  BY <1>3, <1>7
<1> QED BY <1>5, <1>6, <1>8

\* The requests of a new round.
LEMMA RequestsOfType ==
  ASSUME NEW p \in Server, NEW round \in Nat, NEW life \in Nat
  PROVE  {[from |-> p, to |-> q, round |-> round, life |-> life] :
            q \in {r \in Peers(p) : << p, r >> \in Links}}
           \subseteq [from : Server, to : Server, round : Nat, life : Nat]
<1>1. \A q \in Peers(p) : q \in Server
  BY DEF Peers
<1>2. \A q \in Peers(p) : [from |-> p, to |-> q, round |-> round, life |-> life]
                             \in [from : Server, to : Server, round : Nat, life : Nat]
  BY <1>1
<1> QED BY <1>2

\* hb_round stays below RoundLimit.
LEMMA NextRoundType ==
  ASSUME NEW round \in Nat
  PROVE  next_round(round) \in Nat
<1>1. round + 1 \in Nat /\ RoundLimit \in Nat /\ RoundLimit > 0
  BY ElectionAssumption
<1> QED BY <1>1 DEF next_round

\* A server starts to lead with its own ballot, above its promise.
LEMMA HandleLeaderOK ==
  ASSUME Inv, NEW p \in Server, NEW b \in Ballot, b.pid = p, b.n > 0, handle_leader(p, b)
  PROVE  /\ promise' \in [Server -> Ballot] /\ led' \subseteq Ballot
         /\ LedInv'
         /\ \A q \in Server : promise'[q] = DefaultBallot \/ promise'[q].n > 0
<1>1. promise \in [Server -> Ballot] /\ led \subseteq Ballot
  BY DEF Inv, TypeOK
<1>2. CASE promise[p] \prec b
  <2>1. promise' = [promise EXCEPT ![p] = b] /\ led' = led \cup {b}
    BY <1>2 DEF handle_leader
  <2>2. \A q \in Server : promise'[q] = IF q = p THEN b ELSE promise[q]
    BY <1>1, <2>1
  <2>3. \A q \in Server : promise'[q] = DefaultBallot \/ promise'[q].n > 0
    BY <2>2 DEF Inv, FollowedInv
  <2>4. ASSUME NEW c \in led'
        PROVE  c.pid \in Server /\ c.n > 0 /\ c \preceq promise'[c.pid]
    <3>1. CASE c = b
      BY <3>1, <2>2, BallotReflexive
    <3>2. CASE c \in led
      <4>1. c.pid \in Server /\ c.n > 0 /\ c \preceq promise[c.pid] /\ c \in Ballot /\ promise[p] \in Ballot
        BY <3>2, <1>1 DEF Inv, LedInv
      <4>2. c.pid = p => c \preceq b
        BY <4>1, <1>2, BallotTransitive DEF \preceq
      <4> QED BY <4>1, <4>2, <2>2
    <3> QED BY <3>1, <3>2, <2>1
  <2> QED BY <1>1, <2>1, <2>3, <2>4 DEF LedInv
<1>3. CASE ~ (promise[p] \prec b)
  <2>1. promise' = promise /\ led' = led
    BY <1>3 DEF handle_leader
  <2> QED BY <1>1, <2>1 DEF Inv, LedInv, FollowedInv
<1> QED BY <1>2, <1>3

\* A timeout ends the round of p.
LEMMA ElectionTimeoutOK ==
  ASSUME Inv, NEW p \in Server, NEW accepting \in BOOLEAN, election_timeout(p, accepting)
  PROVE  Inv' /\ LeaderStep
<1> DEFINE me == after_timeout(p, accepting)
           round == next_round(hb_round[p])
<1>1. RecordOK(p, me) /\ Advances(Me(p), me)
  BY AfterTimeoutOK
<1>2. /\ current_ballot' = [current_ballot EXCEPT ![p] = me.current_ballot]
      /\ leader' = [leader EXCEPT ![p] = me.leader]
      /\ happy' = [happy EXCEPT ![p] = me.happy]
      /\ hb_round' = [hb_round EXCEPT ![p] = round]
      /\ heartbeat_replies' = [heartbeat_replies EXCEPT ![p] = {}]
      /\ requests' = {m \in requests : m.from # p} \cup requests_of(p, round)
      /\ IF me.leader = me.current_ballot
           THEN handle_leader(p, me.current_ballot)
           ELSE UNCHANGED << promise, led >>
      /\ calm' = [calm EXCEPT ![p] = IF @ < CalmRounds THEN @ + 1 ELSE @]
      /\ replies' = replies /\ retired' = retired /\ budget' = budget
  BY DEF election_timeout
<1> HIDE DEF me
<1>3. /\ me.current_ballot \in Ballot /\ me.leader \in Ballot /\ me.happy \in BOOLEAN
      /\ me.current_ballot.pid = p /\ me.leader.n > 0
  BY <1>1 DEF RecordOK, Records
<1>4. /\ leader[p] \in Ballot /\ current_ballot[p] \in Ballot /\ calm[p] \in Nat /\ hb_round[p] \in Nat
      /\ Me(p).leader = leader[p] /\ Me(p).current_ballot = current_ballot[p]
  BY DEF Inv, TypeOK, Me
<1>5. \A q \in Server : /\ leader'[q] = IF q = p THEN me.leader ELSE leader[q]
                        /\ current_ballot'[q] = IF q = p THEN me.current_ballot ELSE current_ballot[q]
                        /\ heartbeat_replies'[q] = IF q = p THEN {} ELSE heartbeat_replies[q]
  BY <1>2 DEF Inv, TypeOK
<1>6. /\ promise' \in [Server -> Ballot] /\ led' \subseteq Ballot
      /\ LedInv'
      /\ \A q \in Server : promise'[q] = DefaultBallot \/ promise'[q].n > 0
  <2>1. CASE me.leader = me.current_ballot
    BY <2>1, <1>2, <1>3, HandleLeaderOK
  <2>2. CASE me.leader # me.current_ballot
    BY <2>2, <1>2 DEF Inv, TypeOK, LedInv, FollowedInv
  <2> QED BY <2>1, <2>2
<1>7. TypeOK'
  <2>1. round \in Nat
    BY <1>4, NextRoundType
  <2>2. requests' \subseteq [from : Server, to : Server, round : Nat, life : Nat]
    <3>1. budget["restart"][p] \in Nat
      BY DEF Inv, TypeOK, Bounded
    <3>2. requests_of(p, round) \subseteq [from : Server, to : Server, round : Nat, life : Nat]
      BY <2>1, <3>1, RequestsOfType DEF requests_of
    <3> QED BY <1>2, <3>2 DEF Inv, TypeOK
  <2>3. calm' \in [Server -> Nat]
    BY <1>2, <1>4 DEF Inv, TypeOK
  <2>4. hb_round' \in [Server -> Nat] /\ heartbeat_replies' \in [Server -> SUBSET Reply]
    BY <2>1, <1>2 DEF Inv, TypeOK
  <2>5. /\ current_ballot' \in [Server -> Ballot] /\ leader' \in [Server -> Ballot]
        /\ happy' \in [Server -> BOOLEAN] /\ \A q \in Server : current_ballot'[q].pid = q
    BY <1>2, <1>3, <1>5 DEF Inv, TypeOK
  <2> QED BY <1>2, <1>6, <2>2, <2>3, <2>4, <2>5 DEF Inv, TypeOK
<1>8. RepliesInv'
  BY <1>5, FS_EmptySet DEF Inv, RepliesInv
<1>9. FollowedInv'
  BY <1>3, <1>5, <1>6 DEF Inv, FollowedInv
<1>10. RetiredInv'
  <2> SUFFICES ASSUME NEW q \in Server, NEW b \in retired[q]
               PROVE  /\ b \preceq leader'[q]
                      /\ current_ballot'[q].n # RECOVERY_ROUND => b \prec leader'[q]
    BY <1>2 DEF RetiredInv
  <2>1. b \in Ballot /\ b \preceq leader[q] /\ (current_ballot[q].n # RECOVERY_ROUND => b \prec leader[q])
    BY DEF Inv, TypeOK, RetiredInv
  <2>2. CASE q = p /\ leader[p] \prec me.leader
    <3>1. b \prec me.leader
      BY <2>1, <2>2, <1>3, <1>4, BallotStrictlyTransitive
    <3> QED BY <3>1, <2>2, <1>5 DEF \preceq
  <2>3. CASE ~ (q = p /\ leader[p] \prec me.leader)
    BY <2>1, <2>3, <1>1, <1>4, <1>5 DEF Advances
  <2> QED BY <2>2, <2>3
<1>11. LeaderStep
  BY <1>1, <1>4, <1>5 DEF LeaderStep, Advances, \preceq
<1> QED BY <1>6, <1>7, <1>8, <1>9, <1>10, <1>11 DEF Inv

\* Heartbeats change neither ballots nor promises.
LEMMA HeartbeatsOK ==
  ASSUME Inv, UNCHANGED << current_ballot, leader, promise, led, retired, budget >>
  PROVE  LedInv' /\ FollowedInv' /\ RetiredInv' /\ LeaderStep
<1>1. LedInv' /\ FollowedInv' /\ RetiredInv'
  BY DEF Inv, LedInv, FollowedInv, RetiredInv
<1>2. LeaderStep
  BY BallotReflexive DEF LeaderStep
<1> QED BY <1>1, <1>2

\* A request is answered with the state of the server.
LEMMA HandleRequestOK ==
  ASSUME Inv, NEW p \in Server, NEW m \in requests, handle_request(p, m)
  PROVE  Inv' /\ LeaderStep
<1> DEFINE reply == [from |-> p, to |-> m.from, life |-> m.life, reply |-> HeartbeatReply(m.round, p)]
<1>1. m.from \in Server /\ m.round \in Nat /\ m.life \in Nat
  BY DEF Inv, TypeOK
<1>2. HeartbeatReply(m.round, p) \in [round : Nat, ballot : Ballot, leader : Ballot, happy : BOOLEAN]
  BY <1>1 DEF HeartbeatReply, Inv, TypeOK
<1>3. reply \in Reply
  BY <1>1, <1>2 DEF Reply
<1>4. /\ requests' \subseteq requests /\ replies' \subseteq replies \cup {reply}
      /\ UNCHANGED << bleVars, promise, led, retired, calm, budget >>
  BY DEF handle_request
<1> HIDE DEF reply
<1>5. TypeOK'
  BY <1>3, <1>4 DEF Inv, TypeOK, bleVars
<1>6. RepliesInv'
  BY <1>4 DEF Inv, RepliesInv, bleVars
<1> QED BY <1>4, <1>5, <1>6, HeartbeatsOK DEF Inv, bleVars

\* A reply of the current round is kept.
LEMMA HandleReplyOK ==
  ASSUME Inv, NEW p \in Server, NEW m \in replies, handle_reply(p, m)
  PROVE  Inv' /\ LeaderStep
<1>1. heartbeat_replies[p] \cup {m} \in SUBSET Reply /\ IsFiniteSet(heartbeat_replies[p] \cup {m})
  <2>1. heartbeat_replies[p] \in SUBSET Reply /\ m \in Reply /\ IsFiniteSet(heartbeat_replies[p])
    BY DEF Inv, TypeOK, RepliesInv
  <2>2. IsFiniteSet(heartbeat_replies[p] \cup {m})
    BY <2>1, FS_AddElement
  <2> QED BY <2>1, <2>2
<1>2. /\ heartbeat_replies' \in {heartbeat_replies,
                                 [heartbeat_replies EXCEPT ![p] = heartbeat_replies[p] \cup {m}]}
      /\ replies' = replies \ {m}
      /\ UNCHANGED << hb_round, current_ballot, leader, happy, requests, promise, led, retired, calm, budget >>
  BY DEF handle_reply
<1>3. TypeOK'
  BY <1>1, <1>2 DEF Inv, TypeOK
<1>4. RepliesInv'
  BY <1>1, <1>2 DEF Inv, TypeOK, RepliesInv
<1> QED BY <1>2, <1>3, <1>4, HeartbeatsOK DEF Inv

\* A Prepare raises the promise of p to a ballot that somebody leads with.
LEMMA HandlePrepareOK ==
  ASSUME Inv, NEW p \in Server, NEW b \in led, handle_prepare(p, b)
  PROVE  Inv' /\ LeaderStep
<1>1. /\ promise[p] \prec b /\ Disturb("prepare", p)
      /\ promise' = [promise EXCEPT ![p] = b]
      /\ UNCHANGED << bleVars, requests, replies, led, retired >>
  BY DEF handle_prepare
<1>2. "prepare" \in Bounded /\ b \in Ballot /\ b.n > 0 /\ TypeOK
  BY DEF Bounded, Inv, TypeOK, LedInv
<1>3. /\ budget' \in [Bounded -> [Server -> Nat]] /\ calm' \in [Server -> Nat]
  BY <1>1, <1>2, DisturbOK
<1>4. TypeOK'
  BY <1>1, <1>2, <1>3 DEF TypeOK, bleVars
<1>5. \A q \in Server : promise'[q] = IF q = p THEN b ELSE promise[q]
  BY <1>1, <1>2 DEF TypeOK
<1>6. ASSUME NEW c \in led
      PROVE  c.pid \in Server /\ c.n > 0 /\ c \preceq promise'[c.pid]
  <2>1. c.pid \in Server /\ c.n > 0 /\ c \preceq promise[c.pid] /\ c \in Ballot /\ promise[p] \in Ballot
    BY <1>2 DEF Inv, LedInv, TypeOK
  <2>2. c.pid = p => c \preceq b
    BY <2>1, <1>1, <1>2, BallotTransitive DEF \preceq
  <2> QED BY <2>1, <2>2, <1>5
<1>7. LedInv'
  BY <1>1, <1>6 DEF LedInv
<1>8. FollowedInv'
  BY <1>1, <1>2, <1>5 DEF Inv, FollowedInv, bleVars
<1>9. RepliesInv' /\ RetiredInv'
  BY <1>1 DEF Inv, RepliesInv, RetiredInv, bleVars
<1>10. LeaderStep
  BY <1>1, BallotReflexive DEF LeaderStep, bleVars
<1> QED BY <1>4, <1>7, <1>8, <1>9, <1>10 DEF Inv

\* A new priority leaves the number of the own ballot alone.
LEMMA SetPriorityOK ==
  ASSUME Inv, NEW p \in Server, set_priority(p)
  PROVE  Inv' /\ LeaderStep
<1> DEFINE b == [current_ballot[p] EXCEPT !.priority = NewPriority]
<1>1. /\ Disturb("set_priority", p)
      /\ current_ballot' = [current_ballot EXCEPT ![p] = b]
      /\ UNCHANGED << hb_round, heartbeat_replies, leader, happy, requests, replies, promise, led, retired >>
  BY DEF set_priority, Inv, TypeOK
<1>2. b \in Ballot /\ b.pid = p /\ b.n = current_ballot[p].n
  <2>1. current_ballot[p] \in Ballot /\ current_ballot[p].pid = p /\ NewPriority \in Nat
    BY ElectionAssumption DEF Inv, TypeOK
  <2> QED BY <2>1 DEF Ballot
<1> HIDE DEF b
<1>3. "set_priority" \in Bounded /\ TypeOK
  BY DEF Bounded, Inv
<1>4. budget' \in [Bounded -> [Server -> Nat]] /\ calm' \in [Server -> Nat]
  BY <1>1, <1>3, DisturbOK
<1>5. \A q \in Server : current_ballot'[q] = IF q = p THEN b ELSE current_ballot[q]
  BY <1>1, <1>3 DEF TypeOK
<1>6. TypeOK'
  <2>1. current_ballot' \in [Server -> Ballot] /\ \A q \in Server : current_ballot'[q].pid = q
    BY <1>1, <1>2, <1>3, <1>5 DEF TypeOK
  <2> QED BY <1>1, <1>3, <1>4, <2>1 DEF TypeOK
<1>7. RepliesInv' /\ LedInv' /\ FollowedInv'
  BY <1>1 DEF Inv, RepliesInv, LedInv, FollowedInv
<1>8. \A q \in Server : current_ballot'[q].n = current_ballot[q].n
  BY <1>2, <1>5
<1>9. RetiredInv'
  BY <1>1, <1>8 DEF Inv, RetiredInv
<1>10. LeaderStep
  BY <1>1, BallotReflexive DEF LeaderStep
<1> QED BY <1>6, <1>7, <1>9, <1>10 DEF Inv

\* The user makes p lead with the next number after its promise.
LEMMA TryBecomeLeaderOK ==
  ASSUME Inv, NEW p \in Server, try_become_leader(p)
  PROVE  Inv' /\ LeaderStep
<1> DEFINE b == [current_ballot[p] EXCEPT !.n = promise[p].n + 1]
<1>1. /\ Disturb("try_become_leader", p) /\ handle_leader(p, b)
      /\ UNCHANGED << bleVars, requests, replies, retired >>
  BY DEF try_become_leader
<1>2. b \in Ballot /\ b.pid = p /\ b.n > 0
  <2>1. promise[p].n \in Nat /\ current_ballot[p] \in Ballot /\ current_ballot[p].pid = p
    BY DEF Inv, TypeOK, Ballot
  <2> QED BY <2>1 DEF Ballot
<1> HIDE DEF b
<1>3. "try_become_leader" \in Bounded /\ TypeOK
  BY DEF Bounded, Inv
<1>4. budget' \in [Bounded -> [Server -> Nat]] /\ calm' \in [Server -> Nat]
  BY <1>1, <1>3, DisturbOK
<1>5. /\ promise' \in [Server -> Ballot] /\ led' \subseteq Ballot /\ LedInv'
      /\ \A q \in Server : promise'[q] = DefaultBallot \/ promise'[q].n > 0
  BY <1>1, <1>2, HandleLeaderOK
<1>6. TypeOK'
  BY <1>1, <1>3, <1>4, <1>5 DEF TypeOK, bleVars
<1>7. RepliesInv' /\ FollowedInv' /\ RetiredInv'
  BY <1>1, <1>5 DEF Inv, RepliesInv, FollowedInv, RetiredInv, bleVars
<1>8. LeaderStep
  BY <1>1, BallotReflexive DEF LeaderStep, bleVars
<1> QED BY <1>5, <1>6, <1>7, <1>8 DEF Inv

\* A server that recovers follows its promise, which is not below what it led
\* with; one that never promised led nothing.
LEMMA RestartOK ==
  ASSUME Inv, NEW p \in Server, restart(p)
  PROVE  Inv' /\ LeaderStep
<1> DEFINE b == [n |-> recovery_n(promise[p]), priority |-> Priority[p], pid |-> p]
           follows == IF promise[p] = DefaultBallot THEN b ELSE promise[p]
           mine == {c \in led : c.pid = p}
<1>1. /\ Disturb("restart", p)
      /\ current_ballot' = [current_ballot EXCEPT ![p] = b]
      /\ leader' = [leader EXCEPT ![p] = follows]
      /\ happy' = [happy EXCEPT ![p] = TRUE]
      /\ hb_round' = [hb_round EXCEPT ![p] = next_round(0)]
      /\ heartbeat_replies' = [heartbeat_replies EXCEPT ![p] = {}]
      /\ requests' = {m \in requests : m.from # p} \cup requests_of(p, next_round(0))'
      /\ retired' = [retired EXCEPT ![p] = mine]
      /\ UNCHANGED << replies, promise, led >>
  BY DEF restart
<1>2. TypeOK /\ p \in Nat /\ p # 0 /\ promise[p] \in Ballot /\ Priority[p] \in Nat /\ "restart" \in Bounded
  BY ServerAssumption, ElectionAssumption DEF Inv, TypeOK, Bounded
<1>3. /\ b \in Ballot /\ b.pid = p
      /\ promise[p] = DefaultBallot => b.n > 0
      /\ promise[p] # DefaultBallot => b.n = RECOVERY_ROUND
  BY <1>2 DEF Ballot, recovery_n, INITIAL_ROUND, RECOVERY_ROUND
<1>4. follows \in Ballot /\ follows.n > 0
  BY <1>2, <1>3 DEF Inv, FollowedInv
<1>5. \A c \in mine : c \in Ballot /\ c \preceq promise[p] /\ c.pid # 0
  BY <1>2 DEF Inv, TypeOK, LedInv
<1>6. promise[p] = DefaultBallot => mine = {}
  <2>1. \A c \in Ballot : c \preceq DefaultBallot => c.pid = 0
    BY DEF Ballot, DefaultBallot, \prec, \preceq
  <2> QED BY <2>1, <1>5
<1> HIDE DEF b, follows, mine
<1>7. /\ budget' \in [Bounded -> [Server -> Nat]] /\ calm' \in [Server -> Nat]
      /\ \A q \in Server : budget'["restart"][q] = budget["restart"][q] => q # p
  BY <1>1, <1>2, DisturbOK
<1>8. \A q \in Server : /\ leader'[q] = IF q = p THEN follows ELSE leader[q]
                        /\ current_ballot'[q] = IF q = p THEN b ELSE current_ballot[q]
                        /\ heartbeat_replies'[q] = IF q = p THEN {} ELSE heartbeat_replies[q]
                        /\ retired'[q] = IF q = p THEN mine ELSE retired[q]
  BY <1>1, <1>2 DEF TypeOK
<1>9. TypeOK'
  <2>1. 0 \in Nat /\ next_round(0) \in Nat
    BY NextRoundType
  <2>2. requests_of(p, next_round(0))' \subseteq [from : Server, to : Server, round : Nat, life : Nat]
    <3>1. budget'["restart"][p] \in Nat
      BY <1>2, <1>7
    <3>2. requests_of(p, next_round(0))' =
            {[from |-> p, to |-> q, round |-> next_round(0), life |-> budget'["restart"][p]] :
               q \in {r \in Peers(p) : << p, r >> \in Links}}
      BY DEF requests_of, next_round
    <3> QED BY <2>1, <3>1, <3>2, RequestsOfType
  <2>3. requests' \subseteq [from : Server, to : Server, round : Nat, life : Nat]
    BY <1>1, <1>2, <2>2 DEF TypeOK
  <2>4. hb_round' \in [Server -> Nat] /\ heartbeat_replies' \in [Server -> SUBSET Reply]
    BY <2>1, <1>1, <1>2 DEF TypeOK
  <2>5. /\ current_ballot' \in [Server -> Ballot] /\ leader' \in [Server -> Ballot]
        /\ happy' \in [Server -> BOOLEAN] /\ \A q \in Server : current_ballot'[q].pid = q
    BY <1>1, <1>2, <1>3, <1>4, <1>8 DEF TypeOK
  <2>6. mine \in SUBSET Ballot
    BY <1>5
  <2>7. retired' \in [Server -> SUBSET Ballot]
    BY <1>1, <1>2, <2>6 DEF TypeOK
  <2> QED BY <1>1, <1>2, <1>7, <2>3, <2>4, <2>5, <2>7 DEF TypeOK
<1>10. RepliesInv'
  BY <1>8, FS_EmptySet DEF Inv, RepliesInv
<1>11. LedInv'
  BY <1>1 DEF Inv, LedInv
<1>12. FollowedInv'
  BY <1>1, <1>4, <1>8 DEF Inv, FollowedInv
<1>13. RetiredInv'
  <2> SUFFICES ASSUME NEW q \in Server, NEW c \in retired'[q]
               PROVE  /\ c \preceq leader'[q]
                      /\ current_ballot'[q].n # RECOVERY_ROUND => c \prec leader'[q]
    BY DEF RetiredInv
  <2>1. CASE q = p
    <3>1. c \in mine /\ promise[p] # DefaultBallot
      BY <2>1, <1>6, <1>8
    <3>2. leader'[q] = promise[p] /\ current_ballot'[q].n = RECOVERY_ROUND
      BY <2>1, <3>1, <1>3, <1>8 DEF follows
    <3> QED BY <3>1, <3>2, <1>5
  <2>2. CASE q # p
    BY <2>2, <1>8 DEF Inv, RetiredInv
  <2> QED BY <2>1, <2>2
<1>14. LeaderStep
  BY <1>7, <1>8, BallotReflexive DEF LeaderStep
<1> QED BY <1>9, <1>10, <1>11, <1>12, <1>13, <1>14 DEF Inv

------------------------------------------------------------------------------
(* The theorems *)

\* The invariant holds when all servers start.
LEMMA InitOK == Init => Inv
<1> SUFFICES ASSUME Init PROVE Inv
  OBVIOUS
<1>1. \A p \in Server : InitialBallot(p) \in Ballot /\ InitialBallot(p).pid = p /\ InitialBallot(p).n > 0
  BY ServerAssumption, ElectionAssumption DEF InitialBallot, INITIAL_ROUND, Ballot
<1>2. 0 \in Nat /\ next_round(0) \in Nat
  BY NextRoundType
<1>3. budget \in [Bounded -> [Server -> Nat]]
  BY ElectionAssumption DEF Init
<1>4. \A p \in Server :
        requests_of(p, next_round(0)) \subseteq [from : Server, to : Server, round : Nat, life : Nat]
  <2> TAKE p \in Server
  <2>1. budget["restart"][p] \in Nat
    BY <1>3 DEF Bounded
  <2> QED BY <2>1, <1>2, RequestsOfType DEF requests_of
<1>5. requests \subseteq [from : Server, to : Server, round : Nat, life : Nat]
  BY <1>4 DEF Init
<1>6. TypeOK
  BY <1>1, <1>2, <1>3, <1>5, DefaultBallotType DEF Init, TypeOK, NeverCalm
<1>7. RepliesInv
  BY FS_EmptySet DEF Init, RepliesInv
<1>8. LedInv /\ FollowedInv /\ RetiredInv
  BY <1>1 DEF Init, LedInv, FollowedInv, RetiredInv
<1> QED BY <1>6, <1>7, <1>8 DEF Inv

\* Every step preserves the invariant and moves the leaders forward.
LEMMA NextOK == Inv /\ [Next]_vars => Inv' /\ (LeaderStep \/ UNCHANGED vars)
<1> SUFFICES ASSUME Inv, [Next]_vars PROVE Inv' /\ (LeaderStep \/ UNCHANGED vars)
  OBVIOUS
<1>1. ASSUME NEW p \in Server, NEW accepting \in BOOLEAN, election_timeout(p, accepting)
      PROVE  Inv' /\ LeaderStep
  BY <1>1, ElectionTimeoutOK
<1>2. ASSUME NEW p \in Server, NEW m \in requests, handle_request(p, m) PROVE Inv' /\ LeaderStep
  BY <1>2, HandleRequestOK
<1>3. ASSUME NEW p \in Server, NEW m \in replies, handle_reply(p, m) PROVE Inv' /\ LeaderStep
  BY <1>3, HandleReplyOK
<1>4. ASSUME NEW p \in Server, NEW b \in led, handle_prepare(p, b) PROVE Inv' /\ LeaderStep
  BY <1>4, HandlePrepareOK
<1>5. ASSUME NEW p \in Server, set_priority(p) PROVE Inv' /\ LeaderStep
  BY <1>5, SetPriorityOK
<1>6. ASSUME NEW p \in Server, try_become_leader(p) PROVE Inv' /\ LeaderStep
  BY <1>6, TryBecomeLeaderOK
<1>7. ASSUME NEW p \in Server, restart(p) PROVE Inv' /\ LeaderStep
  BY <1>7, RestartOK
<1>8. CASE UNCHANGED vars
  BY <1>8 DEF vars, bleVars, Inv, TypeOK, RepliesInv, LedInv, FollowedInv, RetiredInv
<1> QED BY <1>1, <1>2, <1>3, <1>4, <1>5, <1>6, <1>7, <1>8 DEF Next

\* The inductive invariant holds in every reachable state of the election.
THEOREM Invariance == Spec => []Inv
<1>1. Inv /\ [Next]_vars => Inv'
  BY NextOK
<1> QED BY InitOK, <1>1, PTL DEF Spec

\* Every variable of the election keeps its type, and a server's own ballot its
\* pid: the CHOOSE in update_leader finds a largest ballot.
THEOREM TypeCorrectness == Spec => []TypeOK
<1>1. Inv => TypeOK
  BY DEF Inv
<1> QED BY Invariance, <1>1, PTL

\* A recovered server never leads with a ballot it led with before it crashed:
\* with() gives it a ballot without number, and hb_timeout and
\* sync_with_promise only larger ones.
THEOREM NoBallotIsLedTwice == Spec => []NoRetainedLeadership
<1>1. Inv => NoRetainedLeadership
  <2> SUFFICES ASSUME Inv, NEW p \in Server, leader[p] = current_ballot[p], leader[p] \in retired[p]
               PROVE  FALSE
    BY DEF NoRetainedLeadership
  <2>1. leader[p] \in Ballot /\ leader[p].n > 0
    BY DEF Inv, TypeOK, FollowedInv
  <2>2. current_ballot[p].n # RECOVERY_ROUND
    BY <2>1 DEF Ballot, RECOVERY_ROUND
  <2>3. leader[p] \prec leader[p]
    BY <2>2 DEF Inv, RetiredInv
  <2> QED BY <2>1, <2>3, BallotIrreflexive
<1> QED BY Invariance, <1>1, PTL

\* The ballot a server follows only grows while it is up: update_leader,
\* check_takeover and sync_with_promise, in this order, never undo each other.
THEOREM LeadersOnlyAdvance == Spec => LeaderAdvances
<1>1. Inv /\ [Next]_vars => [LeaderStep]_vars
  BY NextOK
<1>2. Spec => [][LeaderStep]_vars
  BY Invariance, <1>1, PTL DEF Spec
<1> QED BY <1>2 DEF LeaderAdvances, LeaderStep
==============================================================================
