---------------------------- MODULE Claims_proofs ----------------------------
(***************************************************************************)
(* Proofs about Claims, for any Claims and Evidence and any number of      *)
(* calls: every Claim stays readable, its succession comes to an end, its  *)
(* support is given once, and it implements ClaimSupport.                  *)
(***************************************************************************)
EXTENDS Claims, SequenceTheorems, TLAPS

EventRecords == [claim : ClaimRecords, links : SUBSET Links]

Typed ==
    /\ admitted \subseteq EvidenceIds
    /\ row \in [Claims -> ClaimRecords \cup {NoClaim}]
    /\ events \in [Claims -> Seq(EventRecords)]
    /\ links \in [Claims -> SUBSET Links]
    /\ successor \in [Claims -> Claims \cup {"none"}]

(* What was never created has left no trace. *)
NothingBeforeCreate ==
    \A k \in Claims : ~Exists(k) => events[k] = <<>> /\ links[k] = {} /\ successor[k] = "none"

(* A successor exists and is another Claim. *)
SuccessorsExist ==
    \A k \in Claims : successor[k] # "none" => Exists(successor[k]) /\ successor[k] # k

IInv == Typed /\ NothingBeforeCreate /\ SuccessorsExist /\ EveryClaimReads /\ SuccessionEnds

USE ClaimConstants

-----------------------------------------------------------------------------
(* One more Event *)

(* The links an Event adds are the links its history has more. *)
LEMMA OneMoreEvent ==
    ASSUME NEW s \in Seq(EventRecords), NEW e \in EventRecords
    PROVE  /\ Append(s, e) \in Seq(EventRecords) /\ Append(s, e) # <<>>
           /\ Last(Append(s, e)) = e
           /\ Head(Append(s, e)) = IF s = <<>> THEN e ELSE Head(s)
           /\ UNION {Append(s, e)[i].links : i \in DOMAIN Append(s, e)}
                = (UNION {s[i].links : i \in DOMAIN s}) \cup e.links
           /\ Len(Append(s, e)) = Len(s) + 1 /\ Len(s) \in Nat
           /\ DOMAIN s = 1 .. Len(s) /\ DOMAIN Append(s, e) = 1 .. Len(s) + 1
           /\ \A i \in 1 .. Len(s) : Append(s, e)[i] = s[i]
           /\ Append(s, e)[Len(s) + 1] = e
<1> DEFINE t == Append(s, e)
<1>1. /\ t \in Seq(EventRecords) /\ t # <<>> /\ Len(t) = Len(s) + 1 /\ Len(s) \in Nat
      /\ \A i \in 1 .. Len(s) : t[i] = s[i]
      /\ t[Len(s) + 1] = e
  BY AppendProperties, LenProperties
<1>2. DOMAIN s = 1 .. Len(s) /\ DOMAIN t = 1 .. Len(s) + 1
  BY <1>1, LenProperties
<1> HIDE DEF t
<1>3. UNION {t[i].links : i \in DOMAIN t} = (UNION {s[i].links : i \in DOMAIN s}) \cup e.links
  <2>1. 1 .. Len(s) + 1 = (1 .. Len(s)) \cup {Len(s) + 1}
    BY <1>1
  <2>2. {t[i].links : i \in DOMAIN t} = {s[i].links : i \in DOMAIN s} \cup {e.links}
    BY <1>1, <1>2, <2>1
  <2> QED
    BY <2>2
<1>4. Last(t) = e
  BY <1>1 DEF Last
<1>5. Head(t) = IF s = <<>> THEN e ELSE Head(s)
  <2>1. Head(t) = t[1] /\ (s # <<>> => Head(s) = s[1] /\ Len(s) >= 1)
    BY <1>1, EmptySeq, HeadTailProperties
  <2>2. s = <<>> => Len(s) = 0
    BY EmptySeq
  <2> QED
    BY <1>1, <2>1, <2>2
<1> QED
  BY <1>1, <1>2, <1>3, <1>4, <1>5 DEF t

LEMMA RowShape ==
    ASSUME Typed, NEW k \in Claims
    PROVE  /\ Exists(k) => row[k] \in ClaimRecords /\ row[k].status \in Statuses
           /\ ~Exists(k) => row[k].status = "none"
           /\ row[k] = [status |-> row[k].status, refs |-> row[k].refs]
  BY DEF Typed, Exists, ClaimRecords, NoClaim

(* What a change of Claim k does to the history and the links of k. *)
LEMMA ChangeOf ==
    ASSUME Typed, NEW k \in Claims, NEW claim \in ClaimRecords, NEW new \in SUBSET Links,
           Change(k, claim, new)
    PROVE  /\ Typed' \/ ~(admitted' \subseteq EvidenceIds)
                     \/ ~(successor' \in [Claims -> Claims \cup {"none"}])
           /\ row'[k] = claim /\ links'[k] = links[k] \cup new
           /\ events'[k] = Append(events[k], [claim |-> claim, links |-> new])
           /\ [claim |-> claim, links |-> new] \in EventRecords
           /\ Exists(k)'
           /\ \A j \in Claims \ {k} :
                row'[j] = row[j] /\ links'[j] = links[j] /\ events'[j] = events[j]
<1> DEFINE e == [claim |-> claim, links |-> new]
<1>1. e \in EventRecords /\ claim # NoClaim
  BY DEF EventRecords, ClaimRecords, Statuses, NoClaim
<1>2. Append(events[k], e) \in Seq(EventRecords)
  BY <1>1, OneMoreEvent DEF Typed
<1>3. /\ row' = [row EXCEPT ![k] = claim]
      /\ events' = [events EXCEPT ![k] = Append(events[k], e)]
      /\ links' = [links EXCEPT ![k] = links[k] \cup new]
  BY DEF Change
<1> QED
  BY <1>1, <1>2, <1>3 DEF Typed, Exists

(* What every call that changes an existing Claim has looked at. *)
Open(k) == Readable(k) /\ row[k].status # "superseded"

(* The history of an open Claim reads on after one more Event. *)
LEMMA HistoryReadsOn ==
    ASSUME Typed, NEW k \in Claims, NEW claim \in ClaimRecords, NEW new \in SUBSET Links,
           Change(k, claim, new),
           \/ Open(k)
           \/ events[k] = <<>> /\ claim.status = "proposed"
    PROVE  HistoryReads(k)' /\ Last(events'[k]).claim = claim
<1> DEFINE s == events[k]
           e == [claim |-> claim, links |-> new]
           t == Append(s, e)
<1>1. s \in Seq(EventRecords) /\ events'[k] = t /\ e \in EventRecords /\ e.claim = claim
  BY ChangeOf DEF Typed
<1>2. /\ t # <<>> /\ Last(t) = e /\ Head(t) = IF s = <<>> THEN e ELSE Head(s)
      /\ Len(t) = Len(s) + 1 /\ Len(s) \in Nat /\ DOMAIN t = 1 .. Len(s) + 1
      /\ DOMAIN s = 1 .. Len(s) /\ \A i \in 1 .. Len(s) : t[i] = s[i]
  BY <1>1, OneMoreEvent
<1> HIDE DEF t, e
<1>3. CASE Open(k)
  <2>1. s # <<>> /\ Head(s).claim.status = "proposed"
    BY <1>3 DEF Open, Readable, HistoryReads
  <2>2. \A i \in 1 .. Len(s) : s[i].claim.status # "superseded"
    <3> SUFFICES ASSUME NEW i \in 1 .. Len(s), s[i].claim.status = "superseded" PROVE FALSE
      OBVIOUS
    <3>1. i = Len(s)
      BY <1>2, <1>3 DEF Open, Readable, HistoryReads
    <3>2. s[Len(s)].claim = row[k]
      BY <1>3 DEF Open, Readable, Last
    <3> QED
      BY <1>3, <3>1, <3>2 DEF Open
  <2>3. \A i \in DOMAIN t : t[i].claim.status = "superseded" => i = Len(t)
    BY <1>2, <2>2
  <2> QED
    BY <1>1, <1>2, <2>1, <2>3 DEF HistoryReads
<1>4. CASE s = <<>> /\ claim.status = "proposed"
  <2>1. Len(s) = 0
    BY <1>4, EmptySeq
  <2>2. \A i \in DOMAIN t : i = Len(t)
    BY <1>2, <2>1
  <2> QED
    BY <1>1, <1>2, <1>4, <2>2 DEF HistoryReads
<1> QED
  BY <1>3, <1>4

(* A change after which the Claim is readable: the row names the Evidence   *)
(* of its old and its new links, which was admitted, and its status has the *)
(* links or the successor it takes.                                         *)
LEMMA ReadsOn ==
    ASSUME Typed, NEW k \in Claims, NEW claim \in ClaimRecords, NEW new \in SUBSET Links,
           Change(k, claim, new), UNCHANGED admitted,
           \/ Open(k)
           \/ events[k] = <<>> /\ links[k] = {} /\ row[k].refs = {} /\ claim.status = "proposed",
           claim.refs = row[k].refs \cup {l.evidence : l \in new},
           {l.evidence : l \in new} \subseteq admitted,
           claim.status = "supported" => Of(k, "support")' # {},
           claim.status = "contradicted" => Of(k, "contradiction")' # {},
           claim.status = "superseded" <=> successor'[k] # "none"
    PROVE  Readable(k)'
<1>1. /\ row'[k] = claim /\ links'[k] = links[k] \cup new /\ Exists(k)'
      /\ events'[k] = Append(events[k], [claim |-> claim, links |-> new])
      /\ [claim |-> claim, links |-> new] \in EventRecords
  BY ChangeOf
<1>2. HistoryReads(k)' /\ Last(events'[k]).claim = claim
  BY HistoryReadsOn
<1>3. links[k] = UNION {events[k][i].links : i \in DOMAIN events[k]}
  <2>1. CASE Open(k)
    BY <2>1 DEF Open, Readable
  <2>2. CASE events[k] = <<>> /\ links[k] = {}
    <3>1. DOMAIN events[k] = {}
      BY <2>2
    <3> QED
      BY <2>2, <3>1
  <2> QED
    BY <2>1, <2>2
<1>4. links'[k] = UNION {events'[k][i].links : i \in DOMAIN events'[k]}
  <2> DEFINE s == events[k]
             e == [claim |-> claim, links |-> new]
  <2>1. s \in Seq(EventRecords) /\ e \in EventRecords /\ e.links = new
    BY <1>1 DEF Typed
  <2>2. UNION {Append(s, e)[i].links : i \in DOMAIN Append(s, e)}
          = (UNION {s[i].links : i \in DOMAIN s}) \cup e.links
    BY <2>1, OneMoreEvent
  <2> QED
    BY <1>1, <1>3, <2>1, <2>2
<1>5. row[k].refs = {l.evidence : l \in links[k]} /\ row[k].refs \subseteq admitted
  BY DEF Open, Readable
<1>6. row'[k].refs = {l.evidence : l \in links'[k]} /\ row'[k].refs \subseteq admitted
  BY <1>1, <1>5
<1> QED
  BY <1>1, <1>2, <1>4, <1>6 DEF Readable

(* The Claims that are left alone stay readable. *)
LEMMA OthersRead ==
    ASSUME NEW k \in Claims, Readable(k), admitted \subseteq admitted',
           row'[k] = row[k], events'[k] = events[k], links'[k] = links[k], successor'[k] = successor[k]
    PROVE  Readable(k)'
  BY DEF Readable, Exists, HistoryReads, Of

(* A change that gives no new successor and supersedes nothing. *)
LEMMA SuccessionKept ==
    ASSUME SuccessionEnds, UNCHANGED successor,
           \A k \in Claims : row'[k].status = "superseded" => row[k].status = "superseded",
           \A k \in Claims : row[k].status = "superseded" => Exists(k)
    PROVE  SuccessionEnds'
<1> SUFFICES ASSUME NEW S \in SUBSET Claims, S # {} ,
                    \A k \in S : row'[k].status = "superseded" /\ successor[k] \notin Claims \ S
             PROVE  FALSE
  BY DEF SuccessionEnds
<1>1. \A k \in S : row[k].status = "superseded" /\ Exists(k)
  OBVIOUS
<1> QED
  BY <1>1 DEF SuccessionEnds

(* Together: a call that changes Claim k and the successor of none. *)
LEMMA ChangeInv ==
    ASSUME IInv, NEW k \in Claims, NEW claim \in ClaimRecords, NEW new \in SUBSET Links,
           Change(k, claim, new), UNCHANGED <<admitted, successor>>, Readable(k)',
           claim.status # "superseded"
    PROVE  IInv'
<1> USE DEF IInv
<1>1. /\ row'[k] = claim /\ Exists(k)'
      /\ \A j \in Claims \ {k} :
           row'[j] = row[j] /\ links'[j] = links[j] /\ events'[j] = events[j]
      /\ Typed'
  BY ChangeOf DEF Typed
<1>2. NothingBeforeCreate'
  BY <1>1 DEF NothingBeforeCreate, Exists
<1>3. SuccessorsExist'
  BY <1>1 DEF SuccessorsExist, Exists, Typed
<1>4. EveryClaimReads'
  BY <1>1, OthersRead DEF EveryClaimReads, Exists
<1>5. SuccessionEnds'
  BY <1>1, SuccessionKept, RowShape
<1> QED
  BY <1>1, <1>2, <1>3, <1>4, <1>5

-----------------------------------------------------------------------------
(* One lemma for each call: what it leaves behind. *)

LEMMA InitInv == Init => IInv
  BY EmptySeq DEF Init, IInv, Typed, NothingBeforeCreate, SuccessorsExist, EveryClaimReads,
         SuccessionEnds, Exists, NoClaim

LEMMA AdmitEvidenceInv ==
    ASSUME NEW e \in EvidenceIds, IInv, AdmitEvidence(e) PROVE IInv'
<1> USE DEF IInv, AdmitEvidence
<1>1. Typed' /\ NothingBeforeCreate' /\ SuccessorsExist' /\ SuccessionEnds'
  BY DEF Typed, NothingBeforeCreate, SuccessorsExist, SuccessionEnds, Exists
<1>2. EveryClaimReads'
  BY OthersRead DEF EveryClaimReads, Exists
<1> QED
  BY <1>1, <1>2

LEMMA CreateInv ==
    ASSUME NEW k \in Claims, IInv, Create(k) PROVE IInv'
<1> DEFINE claim == [status |-> "proposed", refs |-> {}]
<1>1. claim \in ClaimRecords /\ Change(k, claim, {}) /\ UNCHANGED <<admitted, successor>>
  BY DEF Create, ClaimRecords, Statuses
<1>2. ~Exists(k) /\ events[k] = <<>> /\ links[k] = {} /\ successor[k] = "none" /\ row[k].refs = {}
  BY DEF Create, IInv, NothingBeforeCreate, Exists, NoClaim
<1>3. Readable(k)'
  BY <1>1, <1>2, ReadsOn DEF IInv
<1> QED
  BY <1>1, <1>3, ChangeInv

(* Links of one relation that cite this Evidence. *)
Citing(cited, relation) == [evidence : cited, relation : {relation}]

LEMMA CitingLinks ==
    ASSUME NEW cited, NEW relation
    PROVE  /\ \A l \in Citing(cited, relation) :
                l.relation = relation /\ l.evidence \in cited
           /\ cited \subseteq EvidenceIds /\ relation \in Relations
                => Citing(cited, relation) \in SUBSET Links
           /\ \A e \in cited : \E l \in Citing(cited, relation) :
                l.relation = relation /\ l.evidence = e
           /\ {l.evidence : l \in Citing(cited, relation)} = cited
<1>1. ASSUME NEW e \in cited
      PROVE  \E l \in Citing(cited, relation) : l.relation = relation /\ l.evidence = e
  <2> DEFINE new == [evidence |-> e, relation |-> relation]
  <2>1. new \in Citing(cited, relation) /\ new.relation = relation /\ new.evidence = e
    BY DEF Citing
  <2> QED
    BY <2>1
<1>2. \A l \in Citing(cited, relation) : l.relation = relation /\ l.evidence \in cited
  BY DEF Citing
<1>3. cited \subseteq EvidenceIds /\ relation \in Relations => Citing(cited, relation) \in SUBSET Links
  BY DEF Citing, Links
<1>4. {l.evidence : l \in Citing(cited, relation)} = cited
  BY <1>1, <1>2
<1> QED
  BY <1>1, <1>2, <1>3, <1>4

(* The Evidence of a relation after Evidence of one relation was added. *)
LEMMA OfAfter ==
    ASSUME NEW k \in Claims, NEW cited \in SUBSET EvidenceIds, NEW relation, NEW other,
           links'[k] = links[k] \cup Citing(cited, relation)
    PROVE  Of(k, other)' = IF other = relation THEN Of(k, other) \cup cited ELSE Of(k, other)
<1> DEFINE new == Citing(cited, relation)
<1>1. /\ \A l \in new : l.relation = relation /\ l.evidence \in cited
      /\ \A e \in cited : \E l \in new : l.relation = relation /\ l.evidence = e
  BY CitingLinks
<1> HIDE DEF new
<1>2. \A x : x \in Of(k, other) <=> \E l \in links[k] : l.relation = other /\ l.evidence = x
  BY DEF Of
<1>3. \A x : x \in Of(k, other)' <=> \E l \in links'[k] : l.relation = other /\ l.evidence = x
  BY DEF Of
<1>4. links'[k] = links[k] \cup new
  BY DEF new
<1>5. CASE other = relation
  <2>1. \A x : x \in Of(k, other)' <=> x \in Of(k, other) \/ x \in cited
    BY <1>1, <1>2, <1>3, <1>4, <1>5
  <2> QED
    BY <1>5, <2>1
<1>6. CASE other # relation
  <2>1. \A x : x \in Of(k, other)' <=> x \in Of(k, other)
    BY <1>1, <1>2, <1>3, <1>4, <1>6
  <2> QED
    BY <1>6, <2>1
<1> QED
  BY <1>5, <1>6

(* Evidence of one relation is added to an open Claim. *)
Cite(k, cited, relation, status) ==
    /\ Open(k) /\ cited \subseteq admitted
    /\ Change(k, [status |-> status, refs |-> row[k].refs \cup cited],
              Citing(cited, relation))
    /\ UNCHANGED <<admitted, successor>>

LEMMA CiteChanges ==
    ASSUME IInv, NEW k \in Claims, NEW cited \in SUBSET EvidenceIds, NEW relation \in Relations,
           NEW status \in Statuses \ {"superseded"}, Cite(k, cited, relation, status)
    PROVE  /\ [status |-> status, refs |-> row[k].refs \cup cited] \in ClaimRecords
           /\ Citing(cited, relation) \in SUBSET Links
           /\ row'[k] = [status |-> status, refs |-> row[k].refs \cup cited]
           /\ \A other \in Relations :
                Of(k, other)' = IF other = relation THEN Of(k, other) \cup cited ELSE Of(k, other)
           /\ \A j \in Claims \ {k} : row'[j] = row[j] /\ links'[j] = links[j]
<1>1. /\ [status |-> status, refs |-> row[k].refs \cup cited] \in ClaimRecords
      /\ Citing(cited, relation) \in SUBSET Links
  BY RowShape, CitingLinks DEF IInv, Cite, Open, Readable, ClaimRecords
<1>2. /\ row'[k] = [status |-> status, refs |-> row[k].refs \cup cited]
      /\ links'[k] = links[k] \cup Citing(cited, relation)
      /\ \A j \in Claims \ {k} : row'[j] = row[j] /\ links'[j] = links[j]
  BY <1>1, ChangeOf DEF Cite, IInv
<1> QED
  BY <1>1, <1>2, OfAfter

LEMMA CiteInv ==
    ASSUME IInv, NEW k \in Claims, NEW cited \in SUBSET EvidenceIds, NEW relation \in Relations,
           NEW status \in Statuses \ {"superseded"}, Cite(k, cited, relation, status),
           status = "supported" => Of(k, "support")' # {},
           status = "contradicted" => Of(k, "contradiction")' # {}
    PROVE  IInv'
<1> DEFINE claim == [status |-> status, refs |-> row[k].refs \cup cited]
           new == Citing(cited, relation)
<1>1. claim \in ClaimRecords /\ new \in SUBSET Links
  BY CiteChanges
<1>2. Change(k, claim, new) /\ UNCHANGED <<admitted, successor>> /\ Open(k) /\ cited \subseteq admitted
  BY DEF Cite
<1>3. {l.evidence : l \in new} = cited
  BY CitingLinks
<1>4. successor[k] = "none"
  BY <1>2 DEF Open, Readable
<1>5. Readable(k)'
  <2>1. /\ claim.refs = row[k].refs \cup {l.evidence : l \in new}
        /\ {l.evidence : l \in new} \subseteq admitted
    BY <1>2, <1>3
  <2>2. claim.status = status /\ (claim.status = "superseded" <=> successor'[k] # "none")
    BY <1>2, <1>4
  <2> HIDE DEF claim, new
  <2> QED
    BY <1>1, <1>2, <2>1, <2>2, ReadsOn DEF IInv
<1> QED
  BY <1>1, <1>2, <1>5, ChangeInv

LEMMA AddReferenceCites ==
    ASSUME IInv, NEW k \in Claims, NEW e \in EvidenceIds, AddReference(k, e)
    PROVE  Cite(k, {e}, "reference", row[k].status) /\ row[k].status \in Statuses \ {"superseded"}
<1>1. Open(k) /\ e \in admitted
  BY DEF AddReference, Open
<1>2. row[k].status \in Statuses \ {"superseded"}
  BY <1>1, RowShape DEF IInv, Open, Readable
<1>3. [row[k] EXCEPT !.refs = @ \cup {e}] = [status |-> row[k].status, refs |-> row[k].refs \cup {e}]
  <2>1. PICK s, r : row[k] = [status |-> s, refs |-> r]
    BY RowShape DEF IInv
  <2> QED
    BY <2>1
<1>4. {[evidence |-> e, relation |-> "reference"]} = Citing({e}, "reference")
  <2>1. \A l \in Citing({e}, "reference") :
          l = [evidence |-> e, relation |-> "reference"]
    BY DEF Citing
  <2>2. [evidence |-> e, relation |-> "reference"] \in Citing({e}, "reference")
    BY DEF Citing
  <2> QED
    BY <2>1, <2>2
<1>5. /\ Change(k, [row[k] EXCEPT !.refs = @ \cup {e}], {[evidence |-> e, relation |-> "reference"]})
      /\ UNCHANGED <<admitted, successor>>
  BY DEF AddReference
<1> QED
  BY <1>1, <1>2, <1>3, <1>4, <1>5 DEF Cite

LEMMA AddReferenceInv ==
    ASSUME IInv, NEW k \in Claims, NEW e \in EvidenceIds, AddReference(k, e) PROVE IInv'
<1>1. Cite(k, {e}, "reference", row[k].status) /\ row[k].status \in Statuses \ {"superseded"}
  BY AddReferenceCites
<1>2. Of(k, "support")' = Of(k, "support") /\ Of(k, "contradiction")' = Of(k, "contradiction")
  BY <1>1, CiteChanges DEF Relations
<1>3. /\ row[k].status = "supported" => Of(k, "support") # {}
      /\ row[k].status = "contradicted" => Of(k, "contradiction") # {}
  BY DEF AddReference, Readable
<1> QED
  BY <1>1, <1>2, <1>3, CiteInv DEF Relations

LEMMA TransitionCites ==
    ASSUME NEW k \in Claims, NEW cited \in SUBSET EvidenceIds, NEW relation, NEW opposite, NEW status,
           Transition(k, cited, relation, opposite, status), row[k].status # "superseded"
    PROVE  Cite(k, cited, relation, status) /\ cited # {}
  BY DEF Transition, Cite, Open, Citing

LEMMA SupportInv ==
    ASSUME IInv, NEW k \in Claims, NEW cited \in SUBSET EvidenceIds, Support(k, cited) PROVE IInv'
<1>1. Cite(k, cited, "support", "supported") /\ cited # {}
  BY TransitionCites DEF Support, Supportable
<1>2. Of(k, "support")' = Of(k, "support") \cup cited
  BY <1>1, CiteChanges DEF Relations, Statuses
<1>3. Of(k, "support")' # {}
  BY <1>1, <1>2
<1> QED
  BY <1>1, <1>3, CiteInv DEF Relations, Statuses

LEMMA ContradictInv ==
    ASSUME IInv, NEW k \in Claims, NEW cited \in SUBSET EvidenceIds, Contradict(k, cited) PROVE IInv'
<1>1. Cite(k, cited, "contradiction", "contradicted") /\ cited # {}
  BY TransitionCites DEF Contradict
<1>2. Of(k, "contradiction")' = Of(k, "contradiction") \cup cited
  BY <1>1, CiteChanges DEF Relations, Statuses
<1>3. Of(k, "contradiction")' # {}
  BY <1>1, <1>2
<1> QED
  BY <1>1, <1>3, CiteInv DEF Relations, Statuses

LEMMA SupersedeChanges ==
    ASSUME IInv, NEW k \in Claims, NEW n \in Claims, Supersede(k, n)
    PROVE  /\ [status |-> "superseded", refs |-> row[k].refs] \in ClaimRecords
           /\ Change(k, [status |-> "superseded", refs |-> row[k].refs], {})
           /\ row'[k] = [status |-> "superseded", refs |-> row[k].refs]
           /\ \A j \in Claims \ {k} :
                row'[j] = row[j] /\ links'[j] = links[j] /\ events'[j] = events[j]
           /\ Exists(k) /\ Exists(n) /\ k # n /\ row[n].status # "superseded"
           /\ successor' = [successor EXCEPT ![k] = n] /\ UNCHANGED admitted
<1>1. /\ Open(k) /\ Exists(k) /\ Exists(n) /\ k # n /\ row[n].status # "superseded"
      /\ successor' = [successor EXCEPT ![k] = n] /\ UNCHANGED admitted
  BY DEF Supersede, MayFollow, Open, Readable
<1>2. [row[k] EXCEPT !.status = "superseded"] = [status |-> "superseded", refs |-> row[k].refs]
  <2>1. PICK s, r : row[k] = [status |-> s, refs |-> r]
    BY RowShape DEF IInv
  <2> QED
    BY <2>1
<1>3. [status |-> "superseded", refs |-> row[k].refs] \in ClaimRecords
  BY <1>1, RowShape DEF IInv, ClaimRecords, Statuses
<1>4. Change(k, [status |-> "superseded", refs |-> row[k].refs], {})
  BY <1>2 DEF Supersede
<1>5. /\ row'[k] = [status |-> "superseded", refs |-> row[k].refs]
      /\ \A j \in Claims \ {k} :
           row'[j] = row[j] /\ links'[j] = links[j] /\ events'[j] = events[j]
  <2> DEFINE claim == [status |-> "superseded", refs |-> row[k].refs]
  <2> HIDE DEF claim
  <2>1. claim \in ClaimRecords /\ Change(k, claim, {}) /\ Typed
    BY <1>3, <1>4 DEF claim, IInv
  <2>2. row'[k] = claim /\ \A j \in Claims \ {k} :
           row'[j] = row[j] /\ links'[j] = links[j] /\ events'[j] = events[j]
    BY <2>1, ChangeOf
  <2> QED
    BY <2>2 DEF claim
<1> QED
  BY <1>1, <1>3, <1>4, <1>5

LEMMA SupersedeInv ==
    ASSUME IInv, NEW k \in Claims, NEW n \in Claims, Supersede(k, n) PROVE IInv'
<1> DEFINE claim == [status |-> "superseded", refs |-> row[k].refs]
<1>1. /\ claim \in ClaimRecords /\ Change(k, claim, {}) /\ row'[k] = claim
      /\ \A j \in Claims \ {k} :
           row'[j] = row[j] /\ links'[j] = links[j] /\ events'[j] = events[j]
      /\ Exists(k) /\ Exists(n) /\ k # n /\ row[n].status # "superseded"
      /\ successor' = [successor EXCEPT ![k] = n] /\ UNCHANGED admitted
  BY SupersedeChanges
<1>2. Open(k)
  BY DEF Supersede, Open
<1>3. successor'[k] = n /\ n # "none" /\ \A j \in Claims \ {k} : successor'[j] = successor[j]
  BY <1>1 DEF IInv, Typed
<1>4. claim.status = "superseded" /\ claim.refs = row[k].refs
  OBVIOUS
<1> HIDE DEF claim
<1>5. Typed'
  BY <1>1, ChangeOf DEF IInv, Typed
<1>6. Exists(k)'
  BY <1>1, ChangeOf DEF IInv
<1>7. NothingBeforeCreate'
  BY <1>1, <1>3, <1>6 DEF IInv, NothingBeforeCreate, Exists
<1>8. SuccessorsExist'
  <2> SUFFICES ASSUME NEW j \in Claims, successor'[j] # "none"
               PROVE  row'[successor'[j]] # NoClaim /\ successor'[j] # j
    BY DEF SuccessorsExist, Exists
  <2>1. CASE j = k
    BY <1>1, <1>3, <2>1 DEF Exists
  <2>2. CASE j # k
    <3>1. successor'[j] = successor[j] /\ Exists(successor[j]) /\ successor[j] # j
      BY <1>3, <2>2 DEF IInv, SuccessorsExist
    <3>2. successor[j] \in Claims
      BY <2>2, <3>1, <1>3 DEF IInv, Typed
    <3> QED
      BY <1>1, <1>6, <3>1, <3>2 DEF Exists
  <2> QED
    BY <2>1, <2>2
<1>9. EveryClaimReads'
  <2>1. Readable(k)'
    <3>1. {l.evidence : l \in {}} = {}
      OBVIOUS
    <3> QED
      BY <1>1, <1>2, <1>3, <1>4, <3>1, ReadsOn DEF IInv
  <2>2. \A j \in Claims \ {k} : Exists(j)' => Readable(j)'
    BY <1>1, <1>3, OthersRead DEF IInv, EveryClaimReads, Exists
  <2> QED
    BY <2>1, <2>2 DEF EveryClaimReads
<1>10. SuccessionEnds'
  <2> SUFFICES ASSUME NEW S \in SUBSET Claims, S # {}, \A j \in S : Exists(j)',
                      \A j \in S : row'[j].status = "superseded" /\ successor'[j] \notin Claims \ S
               PROVE  FALSE
    BY DEF SuccessionEnds
  <2>1. CASE k \in S
    <3>1. n \in S
      BY <1>3, <2>1
    <3> QED
      BY <1>1, <3>1
  <2>2. CASE k \notin S
    <3>1. \A j \in S : Exists(j) /\ row[j].status = "superseded" /\ successor[j] \notin Claims \ S
      BY <1>1, <1>3, <2>2 DEF Exists
    <3> QED
      BY <3>1 DEF IInv, SuccessionEnds
  <2> QED
    BY <2>1, <2>2
<1> QED
  BY <1>5, <1>7, <1>8, <1>9, <1>10 DEF IInv

LEMMA NextInv == IInv /\ [Next]_vars => IInv'
<1> SUFFICES ASSUME IInv, [Next]_vars PROVE IInv'
  OBVIOUS
<1>1. CASE \E e \in EvidenceIds : AdmitEvidence(e)
  BY <1>1, AdmitEvidenceInv
<1>2. CASE \E k \in Claims : Create(k)
  BY <1>2, CreateInv
<1>3. CASE \E k \in Claims, e \in EvidenceIds : AddReference(k, e)
  BY <1>3, AddReferenceInv
<1>4. CASE \E k \in Claims, cited \in SUBSET EvidenceIds : Support(k, cited) \/ Contradict(k, cited)
  BY <1>4, SupportInv, ContradictInv
<1>5. CASE \E k, n \in Claims : Supersede(k, n)
  BY <1>5, SupersedeInv
<1>6. CASE UNCHANGED vars
  BY <1>6 DEF vars, IInv, Typed, NothingBeforeCreate, SuccessorsExist, EveryClaimReads, SuccessionEnds,
              Readable, HistoryReads, Of, Exists
<1> QED
  BY <1>1, <1>2, <1>3, <1>4, <1>5, <1>6 DEF Next

-----------------------------------------------------------------------------
(* What holds of every behaviour. *)

THEOREM Invariance == Spec => []IInv
  BY InitInv, NextInv, PTL DEF Spec

(* Every row, link and Event has the shape of its table, and a successor    *)
(* exists.                                                                  *)
THEOREM TypeCorrect == Spec => []TypeOK
<1>1. IInv => TypeOK
  <2> SUFFICES ASSUME IInv PROVE TypeOK
    OBVIOUS
  <2>1. ASSUME NEW k \in Claims, NEW i \in DOMAIN events[k]
        PROVE  events[k][i] \in [claim : ClaimRecords, links : SUBSET Links]
    BY <2>1, LenProperties, ElementOfSeq DEF IInv, Typed, EventRecords
  <2> QED
    BY <2>1 DEF IInv, Typed, SuccessorsExist, TypeOK
<1> QED
  BY <1>1, Invariance, PTL

(* No accepted sequence of calls leaves a Claim that get refuses.           *)
THEOREM ClaimsStayReadable == Spec => []EveryClaimReads
<1>1. IInv => EveryClaimReads
  BY DEF IInv
<1> QED
  BY <1>1, Invariance, PTL

(* No succession of Claims goes round in a circle or ends in nothing.       *)
THEOREM SuccessionIsFinite == Spec => []SuccessionEnds
<1>1. IInv => SuccessionEnds
  BY DEF IInv
<1> QED
  BY <1>1, Invariance, PTL

-----------------------------------------------------------------------------
(* What a step may do to the standing of a Claim. *)

Undisturbed(k) ==
    /\ row'[k].status = row[k].status
    /\ Of(k, "support")' = Of(k, "support") /\ Of(k, "contradiction")' = Of(k, "contradiction")

Moved(k) ==
    \/ row[k].status = "none" /\ row'[k].status = "proposed"
    \/ row[k].status = "proposed" /\ row'[k].status = "supported"
    \/ row[k].status # "none" /\ row'[k].status \in {"contradicted", "superseded"}

LEMMA SameLinks ==
    ASSUME NEW k \in Claims, row'[k] = row[k], links'[k] = links[k] PROVE Undisturbed(k)
  BY DEF Undisturbed, Of

LEMMA CiteDisturbsOne ==
    ASSUME IInv, NEW k \in Claims, NEW cited \in SUBSET EvidenceIds, NEW relation \in Relations,
           NEW status \in Statuses \ {"superseded"}, Cite(k, cited, relation, status)
    PROVE  /\ \A j \in Claims \ {k} : Undisturbed(j)
           /\ row'[k].status = status
<1>1. /\ row'[k] = [status |-> status, refs |-> row[k].refs \cup cited]
      /\ \A j \in Claims \ {k} : row'[j] = row[j] /\ links'[j] = links[j]
  BY CiteChanges
<1>2. row'[k].status = status
  BY <1>1
<1>3. \A j \in Claims \ {k} : Undisturbed(j)
  BY <1>1, SameLinks
<1> QED
  BY <1>2, <1>3

(* A step moves the standing of one Claim at most. *)
LEMMA OneMoves ==
    ASSUME IInv, [Next]_vars
    PROVE  \/ \A k \in Claims : Undisturbed(k)
           \/ \E k \in Claims : Moved(k) /\ \A j \in Claims \ {k} : Undisturbed(j)
<1>1. CASE (\E e \in EvidenceIds : AdmitEvidence(e)) \/ UNCHANGED vars
  BY <1>1, SameLinks DEF AdmitEvidence, vars
<1>2. CASE \E k \in Claims : Create(k)
  <2>1. PICK k \in Claims : Create(k)
    BY <1>2
  <2> DEFINE claim == [status |-> "proposed", refs |-> {}]
  <2>2. claim \in ClaimRecords /\ Change(k, claim, {}) /\ claim.status = "proposed"
    BY <2>1 DEF Create, ClaimRecords, Statuses
  <2> HIDE DEF claim
  <2>3. row'[k] = claim /\ \A j \in Claims \ {k} : row'[j] = row[j] /\ links'[j] = links[j]
    BY <2>2, ChangeOf DEF IInv
  <2>4. row[k].status = "none"
    BY <2>1, RowShape DEF Create, IInv
  <2> QED
    BY <2>2, <2>3, <2>4, SameLinks DEF Moved
<1>3. CASE \E k \in Claims, e \in EvidenceIds : AddReference(k, e)
  <2>1. PICK k \in Claims, e \in EvidenceIds : AddReference(k, e)
    BY <1>3
  <2>2. Cite(k, {e}, "reference", row[k].status) /\ row[k].status \in Statuses \ {"superseded"}
    BY <2>1, AddReferenceCites
  <2>3. Of(k, "support")' = Of(k, "support") /\ Of(k, "contradiction")' = Of(k, "contradiction")
    BY <2>2, CiteChanges DEF Relations
  <2>4. row'[k].status = row[k].status /\ \A j \in Claims \ {k} : Undisturbed(j)
    BY <2>2, CiteDisturbsOne DEF Relations
  <2> QED
    BY <2>3, <2>4 DEF Undisturbed
<1>4. CASE \E k \in Claims, cited \in SUBSET EvidenceIds : Support(k, cited)
  <2>1. PICK k \in Claims, cited \in SUBSET EvidenceIds : Support(k, cited)
    BY <1>4
  <2>2. Cite(k, cited, "support", "supported") /\ row[k].status = "proposed"
    BY <2>1, TransitionCites DEF Support, Supportable
  <2>3. row'[k].status = "supported" /\ \A j \in Claims \ {k} : Undisturbed(j)
    BY <2>2, CiteDisturbsOne DEF Relations, Statuses
  <2> QED
    BY <2>2, <2>3 DEF Moved
<1>5. CASE \E k \in Claims, cited \in SUBSET EvidenceIds : Contradict(k, cited)
  <2>1. PICK k \in Claims, cited \in SUBSET EvidenceIds : Contradict(k, cited)
    BY <1>5
  <2>2. Cite(k, cited, "contradiction", "contradicted") /\ row[k].status \in {"proposed", "supported"}
    BY <2>1, TransitionCites DEF Contradict
  <2>3. row'[k].status = "contradicted" /\ \A j \in Claims \ {k} : Undisturbed(j)
    BY <2>2, CiteDisturbsOne DEF Relations, Statuses
  <2> QED
    BY <2>2, <2>3 DEF Moved
<1>6. CASE \E k, n \in Claims : Supersede(k, n)
  <2>1. PICK k, n \in Claims : Supersede(k, n)
    BY <1>6
  <2>2. row'[k].status = "superseded" /\ Exists(k)
        /\ \A j \in Claims \ {k} : row'[j] = row[j] /\ links'[j] = links[j]
    <3>1. row'[k] = [status |-> "superseded", refs |-> row[k].refs]
      BY <2>1, SupersedeChanges
    <3> QED
      BY <2>1, <3>1, SupersedeChanges
  <2>3. row[k].status # "none"
    BY <2>2, RowShape DEF IInv, Statuses
  <2> QED
    BY <2>2, <2>3, SameLinks DEF Moved
<1> QED
  BY <1>1, <1>2, <1>3, <1>4, <1>5, <1>6 DEF Next

LEMMA SameStanding ==
    ASSUME NEW k \in Claims, Undisturbed(k)
    PROVE  VerificationEvidence(k)' = VerificationEvidence(k) /\ Standing(k)' = Standing(k)
  BY DEF Undisturbed, VerificationEvidence, Standing

(* The Evidence a Claim gives to Verification is given once, unchanged      *)
(* while it is given, and never again.                                      *)
THEOREM SupportStaysFixed == Spec => SupportIsFixed
<1>1. ASSUME IInv, [Next]_vars, NEW k \in Claims
      PROVE  /\ VerificationEvidence(k) # {} => VerificationEvidence(k)' \in {VerificationEvidence(k), {}}
             /\ VerificationEvidence(k) = {} /\ VerificationEvidence(k)' # {}
                   => row[k].status = "proposed"
  <2>1. CASE Undisturbed(k)
    BY <2>1, SameStanding
  <2>2. CASE Moved(k)
    BY <2>2 DEF Moved, VerificationEvidence
  <2> QED
    BY <1>1, <2>1, <2>2, OneMoves
<1>2. IInv /\ [Next]_vars =>
        [\A k \in Claims :
            /\ VerificationEvidence(k) # {} => VerificationEvidence(k)' \in {VerificationEvidence(k), {}}
            /\ VerificationEvidence(k) = {} /\ VerificationEvidence(k)' # {}
                  => row[k].status = "proposed"]_vars
  BY <1>1
<1> QED
  BY <1>2, Invariance, PTL DEF Spec, SupportIsFixed

(* Of one Claim the standing moves as ClaimSupport allows. *)
LEMMA StandingMoves ==
    ASSUME NEW k \in Claims, Moved(k)
    PROVE  \/ Standing(k)' = Standing(k)
           \/ Standing(k) = "proposed" /\ Standing(k)' = "supported"
           \/ Standing(k) # "retracted" /\ Standing(k)' = "retracted"
<1>1. CASE row[k].status = "none" /\ row'[k].status = "proposed"
  BY <1>1 DEF Standing
<1>2. CASE row[k].status = "proposed" /\ row'[k].status = "supported"
  BY <1>2 DEF Standing
<1>3. CASE row'[k].status \in {"contradicted", "superseded"}
  <2>1. Standing(k)' = "retracted"
    BY <1>3 DEF Standing, VerificationEvidence
  <2> QED
    BY <2>1
<1> QED
  BY <1>1, <1>2, <1>3 DEF Moved

LEMMA StandingStepRefines ==
    IInv /\ [Next]_vars => [Supports!Next]_([k \in Claims |-> Standing(k)])
<1> DEFINE support == [k \in Claims |-> Standing(k)]
<1> SUFFICES ASSUME IInv, [Next]_vars PROVE Supports!Next \/ support' = support
  OBVIOUS
<1>1. CASE \A k \in Claims : Standing(k)' = Standing(k)
  <2>1. support' = support
    BY <1>1
  <2> QED
    BY <2>1
<1>2. CASE \E k \in Claims : Moved(k) /\ \A j \in Claims \ {k} : Undisturbed(j)
  <2>1. PICK k \in Claims : Moved(k) /\ \A j \in Claims \ {k} : Standing(j)' = Standing(j)
    BY <1>2, SameStanding
  <2>2. support' = [support EXCEPT ![k] = Standing(k)']
    BY <2>1
  <2>3. CASE Standing(k)' = Standing(k)
    BY <1>1, <2>1, <2>3
  <2>4. CASE Standing(k) = "proposed" /\ Standing(k)' = "supported"
    <3>1. support[k] = "proposed" /\ support' = [support EXCEPT ![k] = "supported"]
      BY <2>2, <2>4
    <3> QED
      BY <3>1 DEF Supports!Next, Supports!Support
  <2>5. CASE Standing(k) # "retracted" /\ Standing(k)' = "retracted"
    <3>1. support[k] # "retracted" /\ support' = [support EXCEPT ![k] = "retracted"]
      BY <2>2, <2>5
    <3> QED
      BY <3>1 DEF Supports!Next, Supports!Retract
  <2> QED
    BY <2>1, <2>3, <2>4, <2>5, StandingMoves
<1> QED
  BY <1>1, <1>2, OneMoves, SameStanding

(* A Claim is supported at most once and, once retracted, never again:      *)
(* Claims is what Completion assumes of it.                                 *)
THEOREM ClaimsImplementSupport == Spec => ImplementsClaimSupport
<1>1. Init => Supports!Init
  <2> SUFFICES ASSUME Init PROVE \A k \in Claims : Standing(k) = "proposed"
    BY DEF Supports!Init
  <2> QED
    BY DEF Init, Standing, NoClaim
<1>2. IInv /\ [Next]_vars => [Supports!Next]_([k \in Claims |-> Standing(k)])
  BY StandingStepRefines
<1> QED
  BY <1>1, <1>2, Invariance, PTL DEF Spec, ImplementsClaimSupport, Supports!Spec

=============================================================================
