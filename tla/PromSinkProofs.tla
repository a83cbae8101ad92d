---------------------------- MODULE PromSinkProofs ----------------------------
(***************************************************************************)
(* Theorems about PromSink, for any stats, families, tags and intervals,   *)
(* any finite number of tag sets and any length of time.                   *)
(***************************************************************************)
EXTENDS PromSink, FiniteSetTheorems, TLAPS

\* A family whose label counts are those of its samples.
FamilyOK(fm) ==
  /\ fm \in MetricFamily
  /\ \A l \in Label : fm.labelSet[l] = Carry(Held(fm), l)

FamiliesOK == \A f \in Family : fam[f] # Never => FamilyOK(fam[f])

\* What is held has been written.
HeldIsWritten ==
  \A f \in Family, t \in Tags :
    fam[f] # Never /\ t \in Held(fam[f]) => written[<<f, t>>] # Never

SinkInv == TypeOK /\ FamiliesOK /\ HeldIsWritten /\ PageIsSound

------------------------------------------------------------------------------
(* Counting labels.                                                        *)

LEMMA CarryBounds ==
  ASSUME SinkAssumption, NEW ts \in SUBSET Tags, NEW l
  PROVE  /\ IsFiniteSet({t \in ts : l \in LabelsOf[t]})
         /\ Carry(ts, l) \in Nat
         /\ Carry(ts, l) \in 0 .. Cardinality(Tags)
<1>1. IsFiniteSet(Tags) /\ {t \in ts : l \in LabelsOf[t]} \subseteq Tags
  BY DEF SinkAssumption
<1>2. /\ IsFiniteSet({t \in ts : l \in LabelsOf[t]})
      /\ Cardinality({t \in ts : l \in LabelsOf[t]}) <= Cardinality(Tags)
  BY <1>1, FS_Subset
<1> QED BY <1>1, <1>2, FS_CardinalityType DEF Carry

LEMMA CarryUnion ==
  ASSUME SinkAssumption, NEW A \in SUBSET Tags, NEW B \in SUBSET Tags, NEW l
  PROVE  Carry(A \cup B, l) = Carry(A, l) + Carry(B, l) - Carry(A \cap B, l)
<1> DEFINE With(S) == {t \in S : l \in LabelsOf[t]}
<1>1. With(A \cup B) = With(A) \cup With(B) /\ With(A \cap B) = With(A) \cap With(B)
  OBVIOUS
<1>2. IsFiniteSet(With(A)) /\ IsFiniteSet(With(B))
  BY CarryBounds
<1> HIDE DEF With
<1>3. Cardinality(With(A) \cup With(B))
        = Cardinality(With(A)) + Cardinality(With(B)) - Cardinality(With(A) \cap With(B))
  BY <1>2, FS_Union
<1> QED BY <1>1, <1>3 DEF Carry, With

LEMMA CarryRest ==
  ASSUME SinkAssumption, NEW A \in SUBSET Tags, NEW B \in SUBSET A, NEW l
  PROVE  Carry(A \ B, l) = Carry(A, l) - Carry(B, l)
<1> DEFINE rest == A \ B
<1>1. rest \cup B = A /\ rest \cap B = {} /\ B \in SUBSET Tags /\ rest \in SUBSET Tags
  OBVIOUS
<1> HIDE DEF rest
<1>2. Carry(rest \cup B, l) = Carry(rest, l) + Carry(B, l) - Carry(rest \cap B, l)
  BY <1>1, CarryUnion
<1>3. Carry({}, l) = 0
  BY FS_EmptySet DEF Carry
<1>4. Carry(B, l) \in Nat /\ Carry(rest, l) \in Nat
  BY <1>1, CarryBounds
<1>5. Carry(A, l) = Carry(rest, l) + Carry(B, l) - 0
  BY <1>1, <1>2, <1>3
<1>6. Carry(rest, l) = Carry(A, l) - Carry(B, l)
  BY <1>4, <1>5
<1> QED BY <1>6 DEF rest

LEMMA NewFamilyIsOK == ASSUME SinkAssumption PROVE FamilyOK(NewFamily) /\ Held(NewFamily) = {}
<1>1. Cardinality(Tags) \in Nat
  BY FS_CardinalityType DEF SinkAssumption
<1>2. NewFamily \in MetricFamily /\ Held(NewFamily) = {}
  BY <1>1 DEF NewFamily, MetricFamily, Held
<1>3. \A l : Carry({}, l) = 0
  BY FS_EmptySet DEF Carry
<1> QED BY <1>2, <1>3 DEF FamilyOK, NewFamily

\* Samples that are stored keep the counts true, whether they are new or replace
\* others.
LEMMA AddSamplesIsOK ==
  ASSUME SinkAssumption, NEW fm, FamilyOK(fm), NEW ts \in SUBSET Tags, NEW exp \in Nat
  PROVE  /\ FamilyOK(AddSamples(fm, ts, exp))
         /\ Held(AddSamples(fm, ts, exp)) = Held(fm) \cup ts
         /\ AddSamples(fm, ts, exp).samples = Stored(fm, ts, exp)
<1> DEFINE new == AddSamples(fm, ts, exp)
<1>1. new.samples = Stored(fm, ts, exp) /\ new.labelSet = Count(fm.labelSet, ts, ts \cap Held(fm))
      /\ new = [samples |-> new.samples, labelSet |-> new.labelSet]
  BY DEF AddSamples
<1>2. fm.samples \in [Tags -> Nat \cup {Never}] /\ Held(fm) \subseteq Tags
  BY DEF FamilyOK, MetricFamily, Held
<1>3. new.samples \in [Tags -> Nat \cup {Never}]
  BY <1>1, <1>2 DEF Stored
<1>4. Held(new) = Held(fm) \cup ts
  BY <1>1, <1>2, SinkAssumption DEF Held, Stored, SinkAssumption
<1>5. ASSUME NEW l \in Label PROVE new.labelSet[l] = Carry(Held(new), l)
  <2>1. new.labelSet[l] = Carry(Held(fm), l) + Carry(ts, l) - Carry(ts \cap Held(fm), l)
    BY <1>1 DEF Count, FamilyOK
  <2>2. Held(fm) \cap ts = ts \cap Held(fm)
    OBVIOUS
  <2> QED BY <1>2, <1>4, <2>1, <2>2, CarryUnion
<1>6. new.labelSet \in [Label -> 0 .. Cardinality(Tags)]
  <2>1. new.labelSet = [l \in Label |-> new.labelSet[l]]
    BY <1>1 DEF Count
  <2>2. \A l \in Label : new.labelSet[l] \in 0 .. Cardinality(Tags)
    <3>1. Held(new) \in SUBSET Tags
      BY DEF Held
    <3> HIDE DEF new
    <3>2. \A l \in Label : Carry(Held(new), l) \in 0 .. Cardinality(Tags)
      BY <3>1, CarryBounds
    <3> QED BY <1>5, <3>2
  <2> QED BY <2>1, <2>2
<1> QED BY <1>1, <1>3, <1>4, <1>5, <1>6 DEF FamilyOK, MetricFamily

\* So do samples that are removed.
LEMMA RemoveSamplesIsOK ==
  ASSUME SinkAssumption, NEW fm, FamilyOK(fm), NEW ts \in SUBSET Held(fm)
  PROVE  /\ FamilyOK(RemoveSamples(fm, ts))
         /\ Held(RemoveSamples(fm, ts)) = Held(fm) \ ts
         /\ RemoveSamples(fm, ts).samples = Stored(fm, ts, Never)
<1> DEFINE new == RemoveSamples(fm, ts)
<1>1. new.samples = Stored(fm, ts, Never) /\ new.labelSet = Count(fm.labelSet, {}, ts)
      /\ new = [samples |-> new.samples, labelSet |-> new.labelSet]
  BY DEF RemoveSamples
<1>2. fm.samples \in [Tags -> Nat \cup {Never}] /\ Held(fm) \subseteq Tags
  BY DEF FamilyOK, MetricFamily, Held
<1>3. new.samples \in [Tags -> Nat \cup {Never}]
  BY <1>1, <1>2 DEF Stored
<1>4. Held(new) = Held(fm) \ ts
  BY <1>1, <1>2 DEF Held, Stored
<1>5. ASSUME NEW l \in Label PROVE new.labelSet[l] = Carry(Held(new), l)
  <2>1. new.labelSet[l] = Carry(Held(fm), l) + Carry({}, l) - Carry(ts, l)
    BY <1>1 DEF Count, FamilyOK
  <2>2. Carry({}, l) = 0
    BY FS_EmptySet DEF Carry
  <2>3. Carry(Held(fm), l) \in Nat /\ Carry(ts, l) \in Nat
    BY <1>2, CarryBounds
  <2>4. Carry(Held(fm) \ ts, l) = Carry(Held(fm), l) - Carry(ts, l)
    BY <1>2, CarryRest
  <2>5. Carry(Held(new), l) = Carry(Held(fm) \ ts, l)
    BY <1>4
  <2> HIDE DEF new
  <2> QED BY <2>1, <2>2, <2>3, <2>4, <2>5
<1>6. new.labelSet \in [Label -> 0 .. Cardinality(Tags)]
  <2>1. new.labelSet = [l \in Label |-> new.labelSet[l]]
    BY <1>1 DEF Count
  <2>2. \A l \in Label : new.labelSet[l] \in 0 .. Cardinality(Tags)
    <3>1. Held(new) \in SUBSET Tags
      BY DEF Held
    <3> HIDE DEF new
    <3>2. \A l \in Label : Carry(Held(new), l) \in 0 .. Cardinality(Tags)
      BY <3>1, CarryBounds
    <3> QED BY <1>5, <3>2
  <2> QED BY <2>1, <2>2
<1> QED BY <1>1, <1>3, <1>4, <1>5, <1>6 DEF FamilyOK, MetricFamily

------------------------------------------------------------------------------
(* What a write and a scrape do to one family.                             *)

LEMMA ExpirationIsNat ==
  ASSUME SinkAssumption, NEW st \in Stat
  PROVE  Expiration(st) \in Nat
BY DEF SinkAssumption, Expiration, AtLeast

LEMMA AddMetricFamilyIsOK ==
  ASSUME SinkAssumption, NEW fm, fm # Never => FamilyOK(fm),
         NEW ts \in SUBSET Tags, NEW exp \in Nat
  PROVE  LET new == AddMetricFamily(fm, ts, exp)
         IN  /\ new # Never => FamilyOK(new)
             /\ \A t \in Tags :
                  /\ t \in ts => new # Never /\ new.samples[t] = exp
                  /\ t \notin ts /\ fm # Never => new # Never /\ new.samples[t] = fm.samples[t]
                  /\ new # Never /\ t \in Held(new) =>
                       t \in ts \/ (fm # Never /\ t \in Held(fm))
<1> DEFINE old == IF fm = Never THEN NewFamily ELSE fm
<1>1. CASE ts = {}
  BY <1>1 DEF AddMetricFamily
<1>2. CASE ts # {}
  <2>1. AddMetricFamily(fm, ts, exp) = AddSamples(old, ts, exp)
    BY <1>2 DEF AddMetricFamily
  <2>2. FamilyOK(old) /\ (fm = Never => Held(old) = {})
    BY NewFamilyIsOK
  <2> HIDE DEF old
  <2>3. /\ FamilyOK(AddSamples(old, ts, exp))
        /\ Held(AddSamples(old, ts, exp)) = Held(old) \cup ts
        /\ AddSamples(old, ts, exp).samples = Stored(old, ts, exp)
    BY <2>2, AddSamplesIsOK
  <2>4. AddSamples(old, ts, exp) # Never
    BY <2>3, SinkAssumption DEF FamilyOK, SinkAssumption
  <2>5. fm # Never => old = fm
    BY DEF old
  <2> QED BY <2>1, <2>2, <2>3, <2>4, <2>5 DEF Stored
<1> QED BY <1>1, <1>2

LEMMA ExpireIsOK ==
  ASSUME SinkAssumption, NEW fm, fm # Never => FamilyOK(fm)
  PROVE  /\ Expire(fm) # Never => FamilyOK(Expire(fm))
         /\ Expire(fm) # Never => fm # Never /\ Held(Expire(fm)) \subseteq Held(fm)
         /\ \A t \in Tags : fm # Never /\ t \in Held(fm) \ Expired(fm) =>
              Expire(fm) # Never /\ Expire(fm).samples[t] = fm.samples[t]
<1>1. CASE fm = Never \/ Expired(fm) = Held(fm)
  BY <1>1 DEF Expire
<1>2. CASE ~(fm = Never \/ Expired(fm) = Held(fm))
  <2>1. Expire(fm) = RemoveSamples(fm, Expired(fm)) /\ Expired(fm) \subseteq Held(fm)
    BY <1>2 DEF Expire, Expired
  <2>2. /\ FamilyOK(RemoveSamples(fm, Expired(fm)))
        /\ Held(RemoveSamples(fm, Expired(fm))) = Held(fm) \ Expired(fm)
        /\ RemoveSamples(fm, Expired(fm)).samples = Stored(fm, Expired(fm), Never)
    BY <1>2, <2>1, RemoveSamplesIsOK
  <2>3. RemoveSamples(fm, Expired(fm)) # Never
    BY <2>2, SinkAssumption DEF FamilyOK, SinkAssumption
  <2> QED BY <1>2, <2>1, <2>2, <2>3 DEF Stored
<1> QED BY <1>1, <1>2

LEMMA ExpireRemoves ==
  ASSUME SinkAssumption, NEW fm, fm # Never => FamilyOK(fm), NEW t \in Tags,
         ~(fm # Never /\ t \in Held(fm) \ Expired(fm))
  PROVE  ~(Expire(fm) # Never /\ t \in Held(Expire(fm)))
<1>1. CASE fm = Never \/ Expired(fm) = Held(fm)
  BY <1>1 DEF Expire
<1>2. CASE ~(fm = Never \/ Expired(fm) = Held(fm))
  <2>1. Expire(fm) = RemoveSamples(fm, Expired(fm)) /\ Expired(fm) \subseteq Held(fm)
    BY <1>2 DEF Expire, Expired
  <2>2. Held(RemoveSamples(fm, Expired(fm))) = Held(fm) \ Expired(fm)
    BY <1>2, <2>1, RemoveSamplesIsOK
  <2> QED BY <1>2, <2>1, <2>2
<1> QED BY <1>1, <1>2

------------------------------------------------------------------------------
(* The invariant.                                                          *)

LEMMA SinkInit == ASSUME SinkAssumption, Init PROVE SinkInv
<1>1. TypeOK
  BY DEF Init, TypeOK, SinkAssumption
<1> QED
  BY <1>1 DEF Init, SinkInv, FamiliesOK, HeldIsWritten, PageIsSound

LEMMA StoreKeeps ==
  ASSUME SinkAssumption, SinkInv, NEW st \in Stat,
         NEW S \in SUBSET (FamiliesOf[st] \X Tags), Store(st, S), UNCHANGED <<now, page>>
  PROVE  SinkInv'
<1> DEFINE Of(f) == {t \in Tags : <<f, t>> \in S}
           exp == now + Expiration(st)
<1>1. /\ fam' = [f \in Family |-> AddMetricFamily(fam[f], Of(f), exp)]
      /\ written' = [s \in Family \X Tags |-> IF s \in S THEN now ELSE written[s]]
  BY DEF Store
<1>2. exp \in Nat /\ now \in Nat /\ Never \notin Nat
  BY ExpirationIsNat, SinkAssumption DEF SinkInv, TypeOK, SinkAssumption
<1>3. \A f \in Family : Of(f) \in SUBSET Tags
  OBVIOUS
<1>4. \A f \in Family, t \in Tags : t \in Of(f) <=> <<f, t>> \in S
  OBVIOUS
<1> HIDE DEF Of, exp
<1>5. ASSUME NEW f \in Family
      PROVE  /\ fam'[f] # Never => FamilyOK(fam'[f])
             /\ \A t \in Tags : fam'[f] # Never /\ t \in Held(fam'[f]) =>
                  t \in Of(f) \/ (fam[f] # Never /\ t \in Held(fam[f]))
  <2>1. fam[f] # Never => FamilyOK(fam[f])
    BY DEF SinkInv, FamiliesOK
  <2>2. fam'[f] = AddMetricFamily(fam[f], Of(f), exp)
    BY <1>1
  <2>3. Of(f) \in SUBSET Tags
    BY <1>3
  <2> DEFINE new == AddMetricFamily(fam[f], Of(f), exp)
  <2>4. /\ new # Never => FamilyOK(new)
        /\ \A t \in Tags : new # Never /\ t \in Held(new) =>
             t \in Of(f) \/ (fam[f] # Never /\ t \in Held(fam[f]))
    BY <1>2, <2>1, <2>3, AddMetricFamilyIsOK
  <2> HIDE DEF new
  <2>5. fam'[f] = new
    BY <2>2 DEF new
  <2> QED BY <2>4, <2>5
<1>6. TypeOK'
  <2>1. fam' \in [Family -> MetricFamily \cup {Never}]
    BY <1>1, <1>5 DEF FamilyOK
  <2>2. written' \in [Family \X Tags -> Nat \cup {Never}]
    BY <1>1, <1>2 DEF SinkInv, TypeOK
  <2> QED BY <2>1, <2>2 DEF SinkInv, TypeOK
<1>7. FamiliesOK'
  BY <1>5 DEF FamiliesOK, FamilyOK, Held
<1>8. \A s \in Family \X Tags : s \in S \/ written[s] # Never => written'[s] # Never
  BY <1>1, <1>2
<1>9. HeldIsWritten'
  BY <1>4, <1>5, <1>8 DEF SinkInv, HeldIsWritten, Held
<1>10. PageIsSound'
  <2>1. \A m \in page : <<m.family, m.tags>> \in Family \X Tags
    BY DEF SinkInv, TypeOK, Metric
  <2> QED BY <1>8, <2>1 DEF SinkInv, PageIsSound
<1> QED BY <1>6, <1>7, <1>9, <1>10 DEF SinkInv

LEMMA WritesStore ==
  ASSUME NEW st \in Stat, SinkAssumption, WritePoints(st) \/ WritePointsFails(st)
  PROVE  \E S \in SUBSET (FamiliesOf[st] \X Tags) : Store(st, S) /\ UNCHANGED <<now, page>>
<1>1. CASE WritePoints(st)
  <2>1. PICK ts \in SUBSET Tags : Store(st, FamiliesOf[st] \X ts)
    BY <1>1 DEF WritePoints
  <2>2. FamiliesOf[st] \X ts \in SUBSET (FamiliesOf[st] \X Tags)
    OBVIOUS
  <2> QED BY <1>1, <2>1, <2>2 DEF WritePoints
<1>2. CASE WritePointsFails(st)
  BY <1>2 DEF WritePointsFails
<1> QED BY <1>1, <1>2

\* A scrape exports what is held when it has removed what has expired.
LEMMA PageOfHeld ==
  ASSUME Collect, NEW f \in Family, NEW t
  PROVE  (\E m \in page' : m.family = f /\ m.tags = t) <=> fam'[f] # Never /\ t \in Held(fam'[f])
<1> DEFINE Exported(g) == [family : {g}, tags : Held(fam'[g]),
                           labels : {{l \in Label : fam'[g].labelSet[l] > 0}}]
<1>1. page' = UNION {Exported(g) : g \in {g \in Family : fam'[g] # Never}}
  BY DEF Collect
<1>2. ASSUME NEW m \in page', m.family = f, m.tags = t
      PROVE  fam'[f] # Never /\ t \in Held(fam'[f])
  <2>1. PICK g \in Family : fam'[g] # Never /\ m \in Exported(g)
    BY <1>1
  <2> QED BY <1>2, <2>1
<1>3. ASSUME fam'[f] # Never, t \in Held(fam'[f])
      PROVE  \E m \in page' : m.family = f /\ m.tags = t
  <2> DEFINE m == [family |-> f, tags |-> t, labels |-> {l \in Label : fam'[f].labelSet[l] > 0}]
  <2>1. m \in Exported(f)
    BY <1>3
  <2>2. m.family = f /\ m.tags = t
    OBVIOUS
  <2> HIDE DEF m, Exported
  <2>3. m \in page'
    BY <1>1, <1>3, <2>1
  <2> QED BY <2>2, <2>3
<1> QED BY <1>2, <1>3

LEMMA CollectKeeps == ASSUME SinkAssumption, SinkInv, Collect PROVE SinkInv'
<1>1. /\ fam' = [f \in Family |-> Expire(fam[f])]
      /\ UNCHANGED <<now, written>>
      /\ page' = UNION {[family : {f}, tags : Held(fam'[f]),
                         labels : {{l \in Label : fam'[f].labelSet[l] > 0}}]
                          : f \in {g \in Family : fam'[g] # Never}}
  BY DEF Collect
<1>2. ASSUME NEW f \in Family
      PROVE  /\ fam'[f] # Never => FamilyOK(fam'[f])
             /\ fam'[f] # Never => fam[f] # Never /\ Held(fam'[f]) \subseteq Held(fam[f])
  <2>1. fam[f] # Never => FamilyOK(fam[f])
    BY DEF SinkInv, FamiliesOK
  <2> QED BY <1>1, <2>1, ExpireIsOK
<1>3. FamiliesOK'
  BY <1>2 DEF FamiliesOK, FamilyOK, Held
<1>4. HeldIsWritten'
  BY <1>1, <1>2 DEF SinkInv, HeldIsWritten, Held
<1>5. ASSUME NEW m \in page'
      PROVE  /\ m \in Metric /\ fam'[m.family] # Never /\ m.tags \in Held(fam'[m.family])
             /\ m.labels = {l \in Label : fam'[m.family].labelSet[l] > 0}
  <2>1. PICK f \in Family : /\ fam'[f] # Never
                            /\ m \in [family : {f}, tags : Held(fam'[f]),
                                      labels : {{l \in Label : fam'[f].labelSet[l] > 0}}]
    BY <1>1
  <2>2. Held(fam'[f]) \subseteq Tags
    BY DEF Held
  <2> QED BY <2>1, <2>2 DEF Metric
<1>6. TypeOK'
  <2>1. fam' \in [Family -> MetricFamily \cup {Never}]
    BY <1>1, <1>2 DEF FamilyOK
  <2> QED BY <1>1, <1>5, <2>1 DEF SinkInv, TypeOK
<1>7. ASSUME NEW m \in page' PROVE LabelsOf[m.tags] \subseteq m.labels
  <2>1. m.family \in Family /\ m.tags \in Tags
    BY <1>5 DEF Metric
  <2>2. FamilyOK(fam'[m.family]) /\ m.tags \in Held(fam'[m.family])
    BY <1>2, <1>5, <2>1
  <2>3. ASSUME NEW l \in LabelsOf[m.tags] PROVE Carry(Held(fam'[m.family]), l) > 0
    <3> DEFINE T == {t \in Held(fam'[m.family]) : l \in LabelsOf[t]}
    <3>1. m.tags \in T
      BY <2>2
    <3>2. IsFiniteSet(T) /\ Carry(Held(fam'[m.family]), l) = Cardinality(T)
      BY CarryBounds DEF Held, Carry
    <3> HIDE DEF T
    <3>3. Cardinality(T) \in Nat /\ Cardinality(T) # 0
      BY <3>1, <3>2, FS_CardinalityType, FS_EmptySet
    <3> QED BY <3>2, <3>3
  <2>4. LabelsOf[m.tags] \subseteq Label
    BY <2>1, SinkAssumption DEF SinkAssumption
  <2> QED BY <1>5, <2>2, <2>3, <2>4 DEF FamilyOK
<1>8. ASSUME NEW m \in page' PROVE written'[<<m.family, m.tags>>] # Never
  <2>1. m.family \in Family /\ m.tags \in Tags
    BY <1>5 DEF Metric
  <2> QED BY <1>4, <1>5, <2>1 DEF HeldIsWritten, Held
<1>9. PageIsSound'
  BY <1>5, <1>7, <1>8 DEF PageIsSound
<1> QED BY <1>3, <1>4, <1>6, <1>9 DEF SinkInv

LEMMA TickKeeps == ASSUME SinkAssumption, SinkInv, Tick \/ UNCHANGED vars PROVE SinkInv'
<1>1. UNCHANGED <<fam, written>> /\ now' \in 0 .. MaxTime /\ (page' = {} \/ page' = page)
  BY SinkAssumption DEF Tick, vars, SinkInv, TypeOK, SinkAssumption
<1> QED
  BY <1>1 DEF SinkInv, TypeOK, FamiliesOK, HeldIsWritten, PageIsSound, FamilyOK, Held

\* Types, label counts, samples and scrapes belong together after every write,
\* whole or partial, and every expiry.
THEOREM SinkInvariant == ASSUME SinkAssumption PROVE Spec => []SinkInv
<1>1. Init => SinkInv
  BY SinkInit
<1>2. SinkInv /\ [Next]_vars => SinkInv'
  BY WritesStore, StoreKeeps, CollectKeeps, TickKeeps DEF Next
<1> QED BY <1>1, <1>2, PTL DEF Spec

\* No label count leaves its range, through every replacement and expiry.
THEOREM SinkTypeCorrect == ASSUME SinkAssumption PROVE Spec => []TypeOK
<1>1. SinkInv => TypeOK
  BY DEF SinkInv
<1> QED BY <1>1, SinkInvariant, PTL

\* The count of a label is the number of samples that carry it.
THEOREM CountsAreTrue == ASSUME SinkAssumption PROVE Spec => []LabelCounts
<1>1. SinkInv => LabelCounts
  BY DEF SinkInv, FamiliesOK, FamilyOK, LabelCounts
<1> QED BY <1>1, SinkInvariant, PTL

\* A scrape exports samples with all their labels, and a family with one set.
THEOREM PagesAreSound == ASSUME SinkAssumption PROVE Spec => []PageIsSound
<1>1. SinkInv => PageIsSound
  BY DEF SinkInv
<1> QED BY <1>1, SinkInvariant, PTL

------------------------------------------------------------------------------
(* What a scrape exports.                                                  *)

\* What lives is held, and what is held expires when its last write says.
Tracked ==
  \A st \in Stat : \A f \in FamiliesOf[st], t \in Tags :
    /\ Lives(st, f, t) => fam[f] # Never /\ t \in Held(fam[f])
    /\ fam[f] # Never /\ t \in Held(fam[f]) =>
         fam[f].samples[t] = written[<<f, t>>] + Expiration(st)

LEMMA StoreTracks ==
  ASSUME SinkAssumption, SinkInv, Tracked, NEW st \in Stat,
         NEW S \in SUBSET (FamiliesOf[st] \X Tags), Store(st, S), UNCHANGED <<now, page>>
  PROVE  Tracked'
<1> DEFINE Of(f) == {t \in Tags : <<f, t>> \in S}
           exp == now + Expiration(st)
<1>1. /\ fam' = [f \in Family |-> AddMetricFamily(fam[f], Of(f), exp)]
      /\ written' = [s \in Family \X Tags |-> IF s \in S THEN now ELSE written[s]]
  BY DEF Store
<1>2. exp \in Nat /\ Never \notin Nat
  BY ExpirationIsNat, SinkAssumption DEF SinkInv, TypeOK, SinkAssumption
<1>3. SUFFICES ASSUME NEW r \in Stat, NEW f \in FamiliesOf[r], NEW t \in Tags
               PROVE  /\ Lives(r, f, t)' => fam'[f] # Never /\ t \in Held(fam'[f])
                      /\ fam'[f] # Never /\ t \in Held(fam'[f]) =>
                           fam'[f].samples[t] = written'[<<f, t>>] + Expiration(r)
  BY DEF Tracked, Held, Expiration, AtLeast
<1>4. f \in Family /\ Of(f) \in SUBSET Tags /\ (t \in Of(f) <=> <<f, t>> \in S)
  BY SinkAssumption DEF SinkAssumption
<1>5. exp = now + Expiration(st)
  OBVIOUS
<1> HIDE DEF Of, exp
<1>6. fam[f] # Never => FamilyOK(fam[f])
  BY <1>4 DEF SinkInv, FamiliesOK
<1>7. /\ fam'[f] = AddMetricFamily(fam[f], Of(f), exp)
      /\ written'[<<f, t>>] = IF t \in Of(f) THEN now ELSE written[<<f, t>>]
  BY <1>1, <1>4
<1>8. /\ t \in Of(f) => fam'[f] # Never /\ fam'[f].samples[t] = exp
      /\ t \notin Of(f) /\ fam[f] # Never => fam'[f] # Never /\ fam'[f].samples[t] = fam[f].samples[t]
      /\ fam'[f] # Never /\ t \in Held(fam'[f]) => t \in Of(f) \/ (fam[f] # Never /\ t \in Held(fam[f]))
  <2> DEFINE new == AddMetricFamily(fam[f], Of(f), exp)
  <2>1. /\ t \in Of(f) => new # Never /\ new.samples[t] = exp
        /\ t \notin Of(f) /\ fam[f] # Never => new # Never /\ new.samples[t] = fam[f].samples[t]
        /\ new # Never /\ t \in Held(new) => t \in Of(f) \/ (fam[f] # Never /\ t \in Held(fam[f]))
    BY <1>2, <1>4, <1>6, AddMetricFamilyIsOK
  <2> HIDE DEF new
  <2>2. fam'[f] = new
    BY <1>7 DEF new
  <2> QED BY <2>1, <2>2
<1>9. t \in Of(f) => r = st
  BY <1>4, SinkAssumption DEF SinkAssumption
<1>10. CASE t \in Of(f)
  BY <1>2, <1>5, <1>7, <1>8, <1>9, <1>10 DEF Held
<1>11. CASE t \notin Of(f)
  <2>1. Lives(r, f, t)' = Lives(r, f, t)
    BY <1>7, <1>11 DEF Lives, Expiration, AtLeast
  <2>2. /\ Lives(r, f, t) => fam[f] # Never /\ t \in Held(fam[f])
        /\ fam[f] # Never /\ t \in Held(fam[f]) =>
             fam[f].samples[t] = written[<<f, t>>] + Expiration(r)
    BY DEF Tracked
  <2> QED BY <1>7, <1>8, <1>11, <2>1, <2>2 DEF Held
<1> QED BY <1>10, <1>11

\* Of the samples that are held, a scrape removes those that do not live.
LEMMA CollectSorts ==
  ASSUME SinkAssumption, SinkInv, Tracked, Collect,
         NEW st \in Stat, NEW f \in FamiliesOf[st], NEW t \in Tags
  PROVE  /\ fam'[f] # Never /\ t \in Held(fam'[f]) <=> Lives(st, f, t)
         /\ fam'[f] # Never /\ t \in Held(fam'[f]) =>
              fam'[f].samples[t] = written[<<f, t>>] + Expiration(st)
<1>1. f \in Family
  BY SinkAssumption DEF SinkAssumption
<1>2. fam'[f] = Expire(fam[f])
  BY <1>1 DEF Collect
<1>3. fam[f] # Never => FamilyOK(fam[f])
  BY <1>1 DEF SinkInv, FamiliesOK
<1>4. written[<<f, t>>] \in Nat \cup {Never} /\ Expiration(st) \in Nat /\ now \in Nat
  BY <1>1, ExpirationIsNat, SinkAssumption DEF SinkInv, TypeOK, SinkAssumption
<1>5. fam[f] # Never /\ t \in Held(fam[f]) =>
        /\ written[<<f, t>>] # Never
        /\ fam[f].samples[t] = written[<<f, t>>] + Expiration(st)
  BY <1>1 DEF SinkInv, HeldIsWritten, Tracked
<1>6. Lives(st, f, t) => fam[f] # Never /\ t \in Held(fam[f])
  BY DEF Tracked
<1>7. fam[f] # Never /\ t \in Held(fam[f]) => (t \in Expired(fam[f]) <=> ~Lives(st, f, t))
  BY <1>4, <1>5 DEF Expired, Lives
<1>8. CASE fam[f] # Never /\ t \in Held(fam[f]) \ Expired(fam[f])
  <2>1. Expire(fam[f]) # Never /\ Expire(fam[f]).samples[t] = fam[f].samples[t]
    BY <1>3, <1>8, ExpireIsOK
  <2> QED BY <1>2, <1>5, <1>7, <1>8, <2>1 DEF Held
<1>9. CASE ~(fam[f] # Never /\ t \in Held(fam[f]) \ Expired(fam[f]))
  <2>1. ~Lives(st, f, t)
    BY <1>6, <1>7, <1>9
  <2>2. ~(Expire(fam[f]) # Never /\ t \in Held(Expire(fam[f])))
    BY <1>3, <1>9, ExpireRemoves
  <2> QED BY <1>2, <2>1, <2>2
<1> QED BY <1>8, <1>9

LEMMA CollectTracks ==
  ASSUME SinkAssumption, SinkInv, Tracked, Collect
  PROVE  Tracked'
<1>1. UNCHANGED <<now, written>>
  BY DEF Collect
<1>2. SUFFICES ASSUME NEW st \in Stat, NEW f \in FamiliesOf[st], NEW t \in Tags
               PROVE  /\ Lives(st, f, t)' => fam'[f] # Never /\ t \in Held(fam'[f])
                      /\ fam'[f] # Never /\ t \in Held(fam'[f]) =>
                           fam'[f].samples[t] = written'[<<f, t>>] + Expiration(st)
  BY DEF Tracked, Held, Expiration, AtLeast
<1>3. Lives(st, f, t)' = Lives(st, f, t)
  BY <1>1 DEF Lives, Expiration, AtLeast
<1>4. /\ fam'[f] # Never /\ t \in Held(fam'[f]) <=> Lives(st, f, t)
      /\ fam'[f] # Never /\ t \in Held(fam'[f]) =>
           fam'[f].samples[t] = written[<<f, t>>] + Expiration(st)
  BY CollectSorts
<1> QED BY <1>1, <1>3, <1>4

LEMMA TickTracks ==
  ASSUME SinkAssumption, SinkInv, Tracked, Tick \/ UNCHANGED vars
  PROVE  Tracked'
<1>1. UNCHANGED <<fam, written>> /\ (now' = now + 1 \/ now' = now) /\ now \in Nat
  BY SinkAssumption DEF Tick, vars, SinkInv, TypeOK, SinkAssumption
<1>2. ASSUME NEW st \in Stat, NEW f \in FamiliesOf[st], NEW t \in Tags, Lives(st, f, t)'
      PROVE  Lives(st, f, t)
  <2>1. f \in Family /\ Expiration(st) \in Nat
    BY ExpirationIsNat, SinkAssumption DEF SinkAssumption
  <2>2. written[<<f, t>>] # Never /\ now' <= written[<<f, t>>] + Expiration(st)
    BY <1>1, <1>2 DEF Lives, Expiration, AtLeast
  <2>3. written[<<f, t>>] \in Nat
    BY <2>1, <2>2 DEF SinkInv, TypeOK
  <2> QED BY <1>1, <2>1, <2>2, <2>3 DEF Lives
<1> QED BY <1>1, <1>2 DEF Tracked, Held, Expiration, AtLeast

\* A scrape exports a sample if and only if it lives by its last write, through
\* every replacement, partial write, expiry and return of a family.
THEOREM PagesAreExact == ASSUME SinkAssumption PROVE Spec => ScrapesAreExact
<1>1. Init => Tracked
  BY DEF Init, Tracked, Lives, SinkAssumption
<1>2. SinkInv /\ Tracked /\ [Next]_vars => Tracked'
  BY WritesStore, StoreTracks, CollectTracks, TickTracks DEF Next
<1>3. SinkInv /\ Tracked /\ Collect =>
        \A st \in Stat, t \in Tags : \A f \in FamiliesOf[st] :
          (\E m \in page' : m.family = f /\ m.tags = t) <=> Lives(st, f, t)
  <2> SUFFICES ASSUME SinkInv, Tracked, Collect,
                      NEW st \in Stat, NEW t \in Tags, NEW f \in FamiliesOf[st]
               PROVE  (\E m \in page' : m.family = f /\ m.tags = t) <=> Lives(st, f, t)
    OBVIOUS
  <2>1. (\E m \in page' : m.family = f /\ m.tags = t) <=> fam'[f] # Never /\ t \in Held(fam'[f])
    BY PageOfHeld, SinkAssumption DEF SinkAssumption
  <2> QED BY <2>1, CollectSorts
<1> QED BY <1>1, <1>2, <1>3, SinkInvariant, PTL DEF Spec, ScrapesAreExact

==============================================================================
