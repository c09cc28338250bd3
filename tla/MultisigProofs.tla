--------------------------- MODULE MultisigProofs ---------------------------
(***************************************************************************)
(* Proofs about Multisig for any proposers, names, levels and contents,    *)
(* and for any changes of the authority.                                   *)
(*                                                                         *)
(* exec erases the proposal, so one that is still there has not been sent; *)
(* and the levels on its list of provided approvals are exactly those that *)
(* have approved it since it was proposed.                                 *)
(***************************************************************************)
EXTENDS Multisig, FiniteSetTheorems, TLAPS

Types ==
    /\ proposals \in [Keys -> Trxs \cup {None}]
    /\ approvals \in [Keys -> Lists \cup {None}]
    /\ seen \in [Keys -> [Levels -> Trxs \cup {None}]]
    /\ meant \in [Keys -> [Levels -> Trxs \cup {None}]]
    /\ asked \in [Keys -> [Levels -> Nat]]
    /\ sent \in [Keys -> Nat]

(* The lists a of a proposal, what it asked and what was meant.            *)
Sound(a, as, me) ==
    \A l \in Levels : /\ a.requested[l] + a.provided[l] = as[l]
                      /\ a.provided[l] > 0 <=> me[l] # None

Open(k) ==
    /\ proposals[k] = None <=> approvals[k] = None
    /\ proposals[k] # None => sent[k] = 0 /\ Sound(approvals[k], asked[k], meant[k])
    /\ sent[k] <= 1

MsigInv == Types /\ \A k \in Keys : Open(k)

(* Two lists with one level moved by d between them.                       *)
Moved(a, l, d, b) ==
    /\ b \in Lists
    /\ \A m \in Levels :
          /\ b.provided[m] = IF m = l THEN a.provided[l] + d ELSE a.provided[m]
          /\ b.requested[m] = IF m = l THEN a.requested[l] - d ELSE a.requested[m]

LEMMA ListsMove ==
    ASSUME NEW a \in Lists, NEW l \in Levels, NEW d \in {1, -1},
           a.provided[l] + d >= 0, a.requested[l] - d >= 0
    PROVE  Moved(a, l, d, [a EXCEPT !.provided = [a.provided EXCEPT ![l] = a.provided[l] + d],
                                    !.requested = [a.requested EXCEPT ![l] = a.requested[l] - d]])
  <1>1. /\ a.provided \in [Levels -> Nat] /\ a.requested \in [Levels -> Nat]
        /\ a.provided[l] \in Nat /\ a.requested[l] \in Nat
    BY DEF Lists
  <1>2. PICK x \in Nat, y \in Nat : x = a.provided[l] + d /\ y = a.requested[l] - d
    BY <1>1
  <1>3. PICK pr, re : /\ pr = [a.provided EXCEPT ![l] = x]
                      /\ re = [a.requested EXCEPT ![l] = y]
    OBVIOUS
  <1>4. /\ pr \in [Levels -> Nat] /\ re \in [Levels -> Nat]
        /\ \A m \in Levels : /\ pr[m] = IF m = l THEN x ELSE a.provided[m]
                             /\ re[m] = IF m = l THEN y ELSE a.requested[m]
    BY <1>1, <1>3
  <1>5. PICK b : b = [a EXCEPT !.provided = pr, !.requested = re] OBVIOUS
  <1>6. b \in Lists /\ b.provided = pr /\ b.requested = re BY <1>4, <1>5 DEF Lists
  <1>7. Moved(a, l, d, b) BY <1>2, <1>4, <1>6 DEF Moved
  <1> QED BY <1>2, <1>3, <1>5, <1>7

(* A step that changes the lists of an open proposal, and what one of its  *)
(* levels has meant.                                                       *)
LEMMA MoveKeeps ==
    ASSUME MsigInv, NEW k \in Keys, NEW l \in Levels, NEW d \in {1, -1},
           NEW b, NEW t \in Trxs \cup {None},
           approvals[k] # None, Moved(approvals[k], l, d, b),
           b.provided[l] > 0 <=> t # None,
           approvals' = [approvals EXCEPT ![k] = b],
           meant' = [meant EXCEPT ![k] = [meant[k] EXCEPT ![l] = t]],
           UNCHANGED <<proposals, seen, asked, sent>>
    PROVE  MsigInv'
  <1>1. /\ approvals[k] \in Lists /\ meant[k] \in [Levels -> Trxs \cup {None}]
        /\ proposals[k] # None /\ sent[k] = 0 /\ b \in Lists /\ asked[k] \in [Levels -> Nat]
        /\ Sound(approvals[k], asked[k], meant[k])
    BY DEF MsigInv, Types, Open, Moved
  <1>2. Types' BY <1>1 DEF MsigInv, Types
  <1>3. Sound(b, asked[k], [meant[k] EXCEPT ![l] = t])
    <2> SUFFICES ASSUME NEW m \in Levels
                 PROVE  /\ b.requested[m] + b.provided[m] = asked[k][m]
                        /\ b.provided[m] > 0 <=> [meant[k] EXCEPT ![l] = t][m] # None
      BY DEF Sound
    <2>1. PICK a : a = approvals[k] OBVIOUS
    <2>2. /\ a.requested[m] + a.provided[m] = asked[k][m]
          /\ a.provided[m] > 0 <=> meant[k][m] # None
          /\ a.requested[m] \in Nat /\ a.provided[m] \in Nat
      BY <1>1, <2>1 DEF Sound, Lists
    <2>3. /\ b.provided[m] = IF m = l THEN a.provided[l] + d ELSE a.provided[m]
          /\ b.requested[m] = IF m = l THEN a.requested[l] - d ELSE a.requested[m]
      BY <2>1 DEF Moved
    <2>4. b.requested[m] + b.provided[m] = asked[k][m]
      <3>1. CASE m = l
        <4>1. a.requested[m] - d + (a.provided[m] + d) = a.requested[m] + a.provided[m]
          BY <2>2
        <4> QED BY <2>2, <2>3, <3>1, <4>1
      <3>2. CASE m # l BY <2>2, <2>3, <3>2
      <3> QED BY <3>1, <3>2
    <2>5. b.provided[m] > 0 <=> [meant[k] EXCEPT ![l] = t][m] # None
      <3>1. CASE m = l BY <1>1, <3>1
      <3>2. CASE m # l
        <4>1. b.provided[m] = a.provided[m] BY <2>3, <3>2
        <4>2. [meant[k] EXCEPT ![l] = t][m] = meant[k][m] BY <1>1, <3>2
        <4> QED BY <2>2, <4>1, <4>2
      <3> QED BY <3>1, <3>2
    <2> QED BY <2>4, <2>5
  <1>4. \A j \in Keys : Open(j)'
    <2> SUFFICES ASSUME NEW j \in Keys PROVE Open(j)' OBVIOUS
    <2>1. Open(j) BY DEF MsigInv
    <2>2. CASE j = k
      <3>1. approvals'[k] = b /\ meant'[k] = [meant[k] EXCEPT ![l] = t]
        BY DEF MsigInv, Types
      <3>2. b # None BY <1>1, MultisigAssumption
      <3> QED BY <1>1, <1>3, <2>2, <3>1, <3>2 DEF Open
    <2>3. CASE j # k
      <3>1. approvals'[j] = approvals[j] /\ meant'[j] = meant[j]
        BY <2>3 DEF MsigInv, Types
      <3> QED BY <2>1, <3>1 DEF Open
    <2> QED BY <2>2, <2>3
  <1> QED BY <1>2, <1>4 DEF MsigInv

LEMMA ApproveKeeps ==
    ASSUME MsigInv, NEW k \in Keys, NEW l \in Levels, approve(k, l)
    PROVE  MsigInv'
  <1>1. PICK a : a = approvals[k] OBVIOUS
  <1>2. /\ a # None /\ a.requested[l] > 0 /\ seen[k][l] # None
        /\ UNCHANGED <<proposals, seen, asked, sent>>
    BY <1>1 DEF approve
  <1>3. /\ a \in Lists /\ approvals \in [Keys -> Lists \cup {None}]
        /\ meant \in [Keys -> [Levels -> Trxs \cup {None}]]
        /\ seen[k][l] \in Trxs \cup {None}
    BY <1>1, <1>2 DEF MsigInv, Types
  <1>4. /\ a.requested[l] \in Nat /\ a.provided[l] \in Nat
        /\ a.requested \in [Levels -> Nat] /\ a.provided \in [Levels -> Nat]
    BY <1>3 DEF Lists
  <1>5. PICK b : b = [a EXCEPT !.provided = [a.provided EXCEPT ![l] = a.provided[l] + 1],
                               !.requested = [a.requested EXCEPT ![l] = a.requested[l] - 1]]
    OBVIOUS
  <1>6. Moved(a, l, 1, b)
    <2>1. a.provided[l] + 1 >= 0 /\ a.requested[l] - 1 >= 0 BY <1>2, <1>4
    <2> QED BY <1>3, <1>5, <2>1, ListsMove
  <1>7. approvals' = [approvals EXCEPT ![k] = b]
    BY <1>1, <1>3, <1>4, <1>5 DEF approve, Lists
  <1>8. meant' = [meant EXCEPT ![k] = [meant[k] EXCEPT ![l] = seen[k][l]]]
    BY <1>3 DEF approve
  <1>9. b.provided[l] > 0 <=> seen[k][l] # None
    <2>1. b.provided[l] = a.provided[l] + 1 BY <1>6 DEF Moved
    <2>2. b.provided[l] > 0 BY <1>4, <2>1
    <2> QED BY <1>2, <2>2
  <1> QED BY <1>1, <1>2, <1>3, <1>6, <1>7, <1>8, <1>9, MoveKeeps

LEMMA UnapproveKeeps ==
    ASSUME MsigInv, NEW k \in Keys, NEW l \in Levels, unapprove(k, l)
    PROVE  MsigInv'
  <1>1. PICK a : a = approvals[k] OBVIOUS
  <1>2. /\ a # None /\ a.provided[l] > 0
        /\ UNCHANGED <<proposals, seen, asked, sent>>
    BY <1>1 DEF unapprove
  <1>3. /\ a \in Lists /\ approvals \in [Keys -> Lists \cup {None}]
        /\ meant \in [Keys -> [Levels -> Trxs \cup {None}]]
        /\ meant[k][l] \in Trxs \cup {None} /\ meant[k][l] # None
    <2>1. /\ a \in Lists /\ approvals \in [Keys -> Lists \cup {None}]
          /\ meant \in [Keys -> [Levels -> Trxs \cup {None}]]
      BY <1>1, <1>2 DEF MsigInv, Types
    <2>2. Sound(a, asked[k], meant[k]) BY <1>1, <1>2 DEF MsigInv, Open
    <2> QED BY <1>2, <2>1, <2>2 DEF Sound
  <1>4. /\ a.requested[l] \in Nat /\ a.provided[l] \in Nat
        /\ a.requested \in [Levels -> Nat] /\ a.provided \in [Levels -> Nat]
    BY <1>3 DEF Lists
  <1>5. PICK b : b = [a EXCEPT !.provided = [a.provided EXCEPT ![l] = a.provided[l] + (-1)],
                               !.requested = [a.requested EXCEPT ![l] = a.requested[l] - (-1)]]
    OBVIOUS
  <1>6. Moved(a, l, -1, b)
    <2>1. a.provided[l] + (-1) >= 0 /\ a.requested[l] - (-1) >= 0 BY <1>2, <1>4
    <2> QED BY <1>3, <1>5, <2>1, ListsMove
  <1>7. approvals' = [approvals EXCEPT ![k] = b]
    <2>1. a.provided[l] + (-1) = a.provided[l] - 1 /\ a.requested[l] - (-1) = a.requested[l] + 1
      BY <1>4
    <2> QED BY <1>1, <1>3, <1>4, <1>5, <2>1 DEF unapprove, Lists
  <1>8. PICK t : t = IF a.provided[l] = 1 THEN None ELSE meant[k][l] OBVIOUS
  <1>9. t \in Trxs \cup {None} BY <1>3, <1>8
  <1>10. meant' = [meant EXCEPT ![k] = [meant[k] EXCEPT ![l] = t]]
    BY <1>1, <1>3, <1>8 DEF unapprove
  <1>11. b.provided[l] > 0 <=> t # None
    <2>1. b.provided[l] = a.provided[l] + (-1) BY <1>6 DEF Moved
    <2>2. b.provided[l] > 0 <=> a.provided[l] # 1 BY <1>2, <1>4, <2>1
    <2> QED BY <1>3, <1>8, <2>2
  <1> QED BY <1>1, <1>2, <1>3, <1>6, <1>7, <1>9, <1>10, <1>11, MoveKeeps

LEMMA ProposeKeeps ==
    ASSUME MsigInv, NEW k \in Keys, NEW trx \in Trxs, NEW req \in [Levels -> Nat],
           propose(k, trx, req)
    PROVE  MsigInv' /\ ~ (sent'[k] > sent[k]) /\ \A j \in Keys \ {k} : sent'[j] = sent[j]
  <1>1. PICK a, me : /\ a = [requested |-> req, provided |-> Nobody]
                     /\ me = [l \in Levels |-> None]
    OBVIOUS
  <1>2. /\ proposals' = [proposals EXCEPT ![k] = trx]
        /\ approvals' = [approvals EXCEPT ![k] = a]
        /\ asked' = [asked EXCEPT ![k] = req] /\ sent' = [sent EXCEPT ![k] = 0]
        /\ meant' = [meant EXCEPT ![k] = me] /\ seen' = seen
    BY <1>1 DEF propose
  <1>3. a \in Lists /\ me \in [Levels -> Trxs \cup {None}]
    BY <1>1 DEF Lists, Nobody
  <1>4. Types' BY <1>2, <1>3 DEF MsigInv, Types
  <1>5. Sound(a, req, me)
    <2>1. \A l \in Levels : /\ a.requested[l] = req[l] /\ a.provided[l] = 0
                            /\ me[l] = None /\ req[l] \in Nat
      BY <1>1 DEF Nobody
    <2> QED BY <2>1 DEF Sound
  <1>6. a # None /\ trx # None BY <1>3, MultisigAssumption
  <1>7. \A j \in Keys : Open(j)'
    <2> SUFFICES ASSUME NEW j \in Keys PROVE Open(j)' OBVIOUS
    <2>1. CASE j = k
      <3>1. /\ proposals'[k] = trx /\ approvals'[k] = a /\ asked'[k] = req
            /\ sent'[k] = 0 /\ meant'[k] = me
        BY <1>2 DEF MsigInv, Types
      <3> QED BY <1>5, <1>6, <2>1, <3>1 DEF Open
    <2>2. CASE j # k
      <3>1. /\ proposals'[j] = proposals[j] /\ approvals'[j] = approvals[j]
            /\ asked'[j] = asked[j] /\ sent'[j] = sent[j] /\ meant'[j] = meant[j]
        BY <1>2, <2>2 DEF MsigInv, Types
      <3>2. Open(j) BY DEF MsigInv
      <3> QED BY <3>1, <3>2 DEF Open
    <2> QED BY <2>1, <2>2
  <1>8. sent'[k] = 0 /\ sent[k] \in Nat /\ \A j \in Keys \ {k} : sent'[j] = sent[j]
    BY <1>2 DEF MsigInv, Types
  <1>9. ~ (sent'[k] > sent[k]) BY <1>8
  <1> QED BY <1>4, <1>7, <1>8, <1>9 DEF MsigInv

(* cancel and exec take the proposal away; exec counts it as sent.         *)
LEMMA EraseKeeps ==
    ASSUME MsigInv, NEW k \in Keys, erase(k), proposals[k] # None,
           UNCHANGED <<seen, meant, asked>>,
           NEW n \in {0, 1}, sent' = [sent EXCEPT ![k] = n]
    PROVE  MsigInv'
  <1>1. /\ proposals' = [proposals EXCEPT ![k] = None]
        /\ approvals' = [approvals EXCEPT ![k] = None]
    BY DEF erase
  <1>2. Types' BY <1>1 DEF MsigInv, Types
  <1>3. \A j \in Keys : Open(j)'
    <2> SUFFICES ASSUME NEW j \in Keys PROVE Open(j)' OBVIOUS
    <2>1. CASE j = k
      <3>1. proposals'[k] = None /\ approvals'[k] = None /\ sent'[k] = n
        BY <1>1 DEF MsigInv, Types
      <3> QED BY <2>1, <3>1 DEF Open
    <2>2. CASE j # k
      <3>1. /\ proposals'[j] = proposals[j] /\ approvals'[j] = approvals[j]
            /\ sent'[j] = sent[j]
        BY <1>1, <2>2 DEF MsigInv, Types
      <3>2. Open(j) BY DEF MsigInv
      <3> QED BY <3>1, <3>2 DEF Open
    <2> QED BY <2>1, <2>2
  <1> QED BY <1>2, <1>3 DEF MsigInv

LEMMA ExecKeeps ==
    ASSUME MsigInv, NEW k \in Keys, exec(k)
    PROVE  MsigInv' /\ SendsWithConsent
  <1>1. /\ proposals[k] # None /\ approvals[k] # None /\ erase(k)
        /\ check_transaction_authorization(approvals[k].provided)
        /\ UNCHANGED <<seen, meant, asked>> /\ sent' = [sent EXCEPT ![k] = sent[k] + 1]
    BY DEF exec
  <1>2. sent[k] = 0 /\ Sound(approvals[k], asked[k], meant[k])
    BY <1>1 DEF MsigInv, Open
  <1>3. sent' = [sent EXCEPT ![k] = 1] BY <1>1, <1>2
  <1>4. MsigInv' BY <1>1, <1>3, EraseKeeps
  <1>5. {l \in Levels : approvals[k].provided[l] > 0} = {l \in Levels : meant[k][l] # None}
    BY <1>2 DEF Sound
  <1>6. Cardinality({l \in Levels : meant[k][l] # None}) >= threshold
    BY <1>1, <1>5 DEF check_transaction_authorization
  <1>7. \A j \in Keys \ {k} : sent'[j] = sent[j] /\ sent[j] \in Nat
    BY <1>3 DEF MsigInv, Types
  <1>8. \A j \in Keys \ {k} : ~ (sent'[j] > sent[j]) BY <1>7
  <1>9. SendsWithConsent BY <1>6, <1>8 DEF SendsWithConsent
  <1> QED BY <1>4, <1>9

LEMMA NothingSent ==
    ASSUME MsigInv, sent' = sent
    PROVE  SendsWithConsent
  <1>1. \A j \in Keys : sent[j] \in Nat BY DEF MsigInv, Types
  <1>2. \A j \in Keys : ~ (sent'[j] > sent[j]) BY <1>1
  <1> QED BY <1>2 DEF SendsWithConsent

LEMMA InitGood == Init => MsigInv
  <1> SUFFICES ASSUME Init PROVE MsigInv OBVIOUS
  <1>1. Types BY DEF Init, Types, Nobody
  <1>2. \A k \in Keys : proposals[k] = None /\ approvals[k] = None /\ sent[k] = 0
    BY DEF Init
  <1> QED BY <1>1, <1>2 DEF MsigInv, Open

LEMMA StepGood ==
    ASSUME MsigInv, [Next]_vars
    PROVE  MsigInv' /\ SendsWithConsent
  <1>1. CASE UNCHANGED <<tables, ghosts>>
    <2>1. MsigInv' BY <1>1 DEF MsigInv, Types, Open, tables, ghosts
    <2>2. sent' = sent BY <1>1 DEF ghosts
    <2> QED BY <2>1, <2>2, NothingSent
  <1>2. ASSUME NEW k \in Keys, NEW trx \in Trxs, NEW req \in [Levels -> 0 .. MaxAsked],
               propose(k, trx, req)
        PROVE  MsigInv' /\ SendsWithConsent
    <2>1. req \in [Levels -> Nat] BY MultisigAssumption
    <2>2. MsigInv' /\ ~ (sent'[k] > sent[k]) /\ \A j \in Keys \ {k} : sent'[j] = sent[j]
      BY <1>2, <2>1, ProposeKeeps
    <2>3. \A j \in Keys : sent[j] \in Nat BY DEF MsigInv, Types
    <2>4. \A j \in Keys : ~ (sent'[j] > sent[j])
      <3> SUFFICES ASSUME NEW j \in Keys PROVE ~ (sent'[j] > sent[j]) OBVIOUS
      <3>1. CASE j = k BY <2>2, <3>1
      <3>2. CASE j # k BY <2>2, <2>3, <3>2
      <3> QED BY <3>1, <3>2
    <2> QED BY <2>2, <2>4 DEF SendsWithConsent
  <1>3. ASSUME NEW k \in Keys, NEW l \in Levels, approve(k, l)
        PROVE  MsigInv' /\ SendsWithConsent
    <2>1. sent' = sent BY <1>3 DEF approve
    <2> QED BY <1>3, <2>1, ApproveKeeps, NothingSent
  <1>4. ASSUME NEW k \in Keys, NEW l \in Levels, unapprove(k, l)
        PROVE  MsigInv' /\ SendsWithConsent
    <2>1. sent' = sent BY <1>4 DEF unapprove
    <2> QED BY <1>4, <2>1, UnapproveKeeps, NothingSent
  <1>5. ASSUME NEW k \in Keys, NEW l \in Levels, Look(k, l)
        PROVE  MsigInv' /\ SendsWithConsent
    <2>1. /\ proposals[k] # None /\ seen' = [seen EXCEPT ![k] = [seen[k] EXCEPT ![l] = proposals[k]]]
          /\ UNCHANGED <<tables, meant, asked, sent>>
      BY <1>5 DEF Look, MsigInv, Types
    <2>2. proposals[k] \in Trxs \cup {None} BY DEF MsigInv, Types
    <2>3. Types' BY <2>1, <2>2 DEF MsigInv, Types, tables
    <2>4. MsigInv' BY <2>1, <2>3 DEF MsigInv, Open, tables
    <2> QED BY <2>1, <2>4, NothingSent
  <1>6. ASSUME NEW k \in Keys, NEW c, cancel(k, c)
        PROVE  MsigInv' /\ SendsWithConsent
    <2>1. proposals[k] # None /\ erase(k) /\ UNCHANGED <<seen, meant, asked, sent>>
      BY <1>6 DEF cancel, ghosts
    <2>2. sent' = [sent EXCEPT ![k] = 0] BY <2>1 DEF MsigInv, Types, Open
    <2>3. MsigInv' BY <2>1, <2>2, EraseKeeps
    <2> QED BY <2>1, <2>3, NothingSent
  <1>7. ASSUME NEW k \in Keys, exec(k)
        PROVE  MsigInv' /\ SendsWithConsent
    BY <1>7, ExecKeeps
  <1>8. ASSUME NEW k \in Keys, Retire(k)
        PROVE  UNCHANGED <<tables, ghosts>>
    BY <1>8 DEF Retire
  <1>9. CASE Tick \/ UpdateAuth \/ UNCHANGED vars
    BY <1>1, <1>9 DEF Tick, UpdateAuth, vars
  <1> QED BY <1>1, <1>2, <1>3, <1>4, <1>5, <1>6, <1>7, <1>8, <1>9 DEF Next

(* The two tables of the contract go together, every level a proposal asks *)
(* for is on one of its lists as often as it was asked, and a proposal is  *)
(* sent at most once, also when its name is used again later.              *)
THEOREM ProposalsSentOnce == Spec => []SentOnce
  <1>1. Init => MsigInv BY InitGood
  <1>2. MsigInv /\ [Next]_vars => MsigInv' BY StepGood
  <1>3. MsigInv => SentOnce
    BY DEF MsigInv, Open, Sound, SentOnce, ApprovalsConserved
  <1> QED BY <1>1, <1>2, <1>3, PTL DEF Spec

(* exec sends a transaction only with the consent, given for this proposal *)
(* and not withdrawn, of as many levels as its authority then needs.       *)
THEOREM SendsNeedConsent == Spec => SentWithConsent
  <1>1. Init => MsigInv BY InitGood
  <1>2. MsigInv /\ [Next]_vars => MsigInv' BY StepGood
  <1>3. MsigInv /\ [Next]_vars => [SendsWithConsent]_vars BY StepGood
  <1> QED BY <1>1, <1>2, <1>3, PTL DEF Spec, SentWithConsent
=============================================================================
