----------------------- MODULE ReleasePromotionProofs -----------------------
(***************************************************************************)
(* ReleasePromotion's properties for any releases, deployments and runs.   *)
(***************************************************************************)
EXTENDS ReleasePromotion, TLAPS

\* The entry's bytes are there, under its path or nested in what is.
There(e, d) ==
  /\ e.content # None /\ published[d] # None
  /\ published[d] = e.content \/ nested[d] = e.content

PublishedNames(names, k) ==
  \A e \in NamedIn(names) : <<e.tag, k>> \in Places /\ There(e, <<e.tag, k>>)

\* A manifest, wherever it is on its way to the readers, names what is there, except
\* that a staged one also names its own release.
Named ==
  /\ \A p \in Promotions : \A e \in NamedIn(manifest[p]) :
       e = Entry(p) \/ (<<e.tag, p.kind>> \in Places /\ There(e, <<e.tag, p.kind>>))
  /\ \A k \in Kinds : next[k] # None => PublishedNames(next[k].names, k)
  /\ \A k \in Kinds : visible[k] # None => PublishedNames(visible[k].names, k)
  /\ compact # None => PublishedNames(compact, "firmware")
  /\ \A s \in DOMAIN pc : read[s] # None => PublishedNames(read[s], "firmware")
  /\ \A p \in Promotions \cap DOMAIN pc : pc[p] = "install" => There(Entry(p), Place(p))

IInv == TypeOK /\ Named

\* Entries of releases are entries, and what is there stays.
LEMMA EntryIsEntry ==
  ASSUME NEW p \in Promotions
  PROVE  /\ Entry(p) \in Entries /\ Entry(p).tag = p.tag
         /\ Entry(p).content = p.content /\ p.content # None
BY PromotionAssumptions DEF Entry, Entries

LEMMA ThereStays ==
  ASSUME NEW e, NEW d \in Places, There(e, d),
         \A c \in Places : /\ published[c] # None => published'[c] = published[c]
                           /\ nested[c] # None => nested'[c] = nested[c]
  PROVE  There(e, d)'
BY DEF There

LEMMA FunctionIsSeq ==
  ASSUME NEW S, NEW n \in Nat, NEW f \in [1..n -> S]
  PROVE  f \in Seq(S)
OBVIOUS

LEMMA NamesOfSeq ==
  ASSUME NEW S, NEW names \in Seq(S)
  PROVE  NamedIn(names) \subseteq S
BY DEF NamedIn

LEMMA AfterIsStep ==
  ASSUME NEW s \in Promotions \cup Deploys
  PROVE  /\ \A part \in {"begin", "assets", "manifest", "builder"} : After(s, part) \in Step
         /\ s \in Promotions => After(s, "begin") = "check" /\ After(s, "assets") = "install"
         /\ \A part \in {"begin", "manifest", "builder"} : After(s, part) # "install"
BY PromotionAssumptions DEF After, Step

LEMMA InitInv == Init => IInv
<1> SUFFICES ASSUME Init PROVE IInv
  OBVIOUS
<1>1. TypeOK
  <2>1. PICK workload \in Workloads : pc = [s \in workload |-> "idle"]
    BY DEF Init
  <2>2. DOMAIN pc = workload /\ pc \in [DOMAIN pc -> Step] /\ runs \in [DOMAIN pc -> 0..MaxRuns]
    BY <2>1, PromotionAssumptions DEF Init, Step
  <2>3. manifest \in [Promotions -> Seq(Entries)]
    BY DEF Init
  <2>4. DOMAIN read = DOMAIN pc /\ \A s \in DOMAIN pc : read[s] = None
    BY <2>1 DEF Init
  <2>5. /\ published \in [Places -> Contents \cup {None}] /\ nested \in [Places -> Contents \cup {None}]
        /\ next \in [Kinds -> {None} \cup ManifestFile] /\ visible \in [Kinds -> {None} \cup ManifestFile]
    BY DEF Init
  <2>6. source \in [Promotions -> BOOLEAN] /\ overlapped \in BOOLEAN
    BY Zenon DEF Init
  <2>8. stops \in 0..MaxStops /\ compact = None
    BY PromotionAssumptions DEF Init
  <2>7. DOMAIN pc \in Workloads
    BY <2>1, <2>2
  <2> QED
    BY <2>2, <2>3, <2>4, <2>5, <2>6, <2>7, <2>8 DEF TypeOK
<1>2. Named
  BY DEF Init, Named, NamedIn
<1> QED
  BY <1>1, <1>2 DEF IInv

LEMMA Placing ==
  ASSUME TypeOK, NEW p \in Promotions, Placed(p)
  PROVE  /\ published' \in [Places -> Contents \cup {None}]
         /\ nested' \in [Places -> Contents \cup {None}]
         /\ published'[Place(p)] # None
         /\ published'[Place(p)] = p.content \/ nested'[Place(p)] = p.content
         /\ \A d \in Places : published[d] # None => published'[d] = published[d]
         /\ \A d \in Places : nested[d] # None => nested'[d] = nested[d]
<1>1. Place(p) \in Places /\ p.content \in Contents /\ p.content # None
  BY PromotionAssumptions DEF Places, Place, Contents
<1>2. /\ published \in [Places -> Contents \cup {None}]
      /\ nested \in [Places -> Contents \cup {None}]
  BY DEF TypeOK
<1> QED
  BY <1>1, <1>2 DEF Placed

LEMMA TypesKept == TypeOK /\ [Next]_vars => TypeOK'
<1> SUFFICES ASSUME TypeOK, [Next]_vars PROVE TypeOK'
  OBVIOUS
<1>0. DOMAIN pc \subseteq Promotions \cup Deploys
  BY PromotionAssumptions DEF TypeOK
<1> USE DEF TypeOK, Goes, files
<1>1. ASSUME NEW p \in Promotions \cap DOMAIN pc, Stage(p) PROVE TypeOK'
  <2> DEFINE old == visible[p.kind]
             others == IF p.kind = "desktop" \/ old = None THEN {} ELSE {e \in NamedIn(old.names) : e.tag # p.tag}
  <2>1. PICK length \in Lengths(old) : \E rest \in [1..length -> others] :
          manifest' = [manifest EXCEPT ![p] = <<Entry(p)>> \o rest]
    BY <1>1 DEF Stage
  <2>2. PICK rest \in [1..length -> others] : manifest' = [manifest EXCEPT ![p] = <<Entry(p)>> \o rest]
    BY <2>1
  <2>3. p.kind \in Kinds
    BY PromotionAssumptions DEF Kinds
  <2>4. old # None => old.names \in Seq(Entries) /\ Len(old.names) \in Nat
    BY <2>3 DEF ManifestFile
  <2>5. length \in Nat /\ others \subseteq Entries
    BY <2>4 DEF Lengths, NamedIn
  <2>6. rest \in Seq(Entries) /\ <<Entry(p)>> \in Seq(Entries)
    <3>1. rest \in [1..length -> Entries] /\ Entry(p) \in Entries
      BY <2>5, EntryIsEntry
    <3>2. rest \in Seq(Entries)
      BY <2>5, <3>1, FunctionIsSeq
    <3>3. <<Entry(p)>> \in Seq(Entries)
      BY <3>1
    <3> QED
      BY <3>2, <3>3
  <2>7. manifest' \in [Promotions -> Seq(Entries)]
    BY <2>2, <2>6
  <2> HIDE DEF old, others
  <2> QED
    BY <1>1, <2>7 DEF Stage, Step
<1>2. ASSUME NEW p \in Promotions \cap DOMAIN pc, Check(p) PROVE TypeOK'
  BY <1>2 DEF Check, Step
<1>3. ASSUME NEW p \in Promotions \cap DOMAIN pc, Compare(p) PROVE TypeOK'
  BY <1>3, AfterIsStep DEF Compare, Same, Step
<1>4. ASSUME NEW p \in Promotions \cap DOMAIN pc, Move(p) PROVE TypeOK'
  BY <1>4, AfterIsStep, Placing DEF Move
<1>5. ASSUME NEW p \in Promotions \cap DOMAIN pc, Install(p) PROVE TypeOK'
  <2>1. File(p, FALSE) \in ManifestFile
    BY DEF File, ManifestFile
  <2> QED
    BY <1>5, <2>1 DEF Install, Step
<1>6. ASSUME NEW p \in Promotions \cap DOMAIN pc, Write(p) PROVE TypeOK'
  <2>1. File(p, TRUE) \in ManifestFile
    BY DEF File, ManifestFile
  <2>2. \A file \in {None} \cup ManifestFile : Filled(p, file) \in {None} \cup ManifestFile
    BY <2>1 DEF Filled
  <2> QED
    BY <1>6, <2>2 DEF Write, Step
<1>7. ASSUME NEW p \in Promotions \cap DOMAIN pc, Rename(p) PROVE TypeOK'
  BY <1>0, <1>7, AfterIsStep DEF Rename
<1>8. ASSUME NEW p \in Promotions \cap DOMAIN pc, Cleanup(p) PROVE TypeOK'
  BY <1>8 DEF Cleanup, Step
<1>9. ASSUME NEW s \in DOMAIN pc, Begin(s) PROVE TypeOK'
  BY <1>0, <1>9, AfterIsStep, PromotionAssumptions DEF Begin
<1>10. ASSUME NEW s \in DOMAIN pc, BuilderReads(s) PROVE TypeOK'
  <2>1. visible["firmware"].names \in Seq(Entries)
    BY <1>10 DEF BuilderReads, Kinds, ManifestFile
  <2>2. CompactManifest(visible["firmware"].names) \in Seq(Entries)
    BY <2>1, PromotionAssumptions DEF CompactManifest
  <2> QED
    BY <1>10, <2>2 DEF BuilderReads, Step
<1>11. ASSUME NEW s \in DOMAIN pc, BuilderWrites(s) PROVE TypeOK'
  BY <1>0, <1>11, AfterIsStep DEF BuilderWrites
<1>12. ASSUME NEW s \in DOMAIN pc, Stop(s) PROVE TypeOK'
  BY <1>12, PromotionAssumptions DEF Stop, Step
<1>13. CASE UNCHANGED vars
  BY <1>13 DEF vars
<1> QED
  BY <1>1, <1>2, <1>3, <1>4, <1>5, <1>6, <1>7, <1>8, <1>9, <1>10, <1>11, <1>12, <1>13 DEF Next

-----------------------------------------------------------------------------
\* A step that publishes nothing leaves what is published, and what was named.
LEMMA PublishedStays ==
  ASSUME TypeOK, [Next]_vars
  PROVE  \A d \in Places : /\ published[d] # None => published'[d] = published[d]
                           /\ nested[d] # None => nested'[d] = nested[d]
<1>1. CASE UNCHANGED <<published, nested>>
  BY <1>1
<1>2. CASE \E p \in Promotions \cap DOMAIN pc : Move(p)
  BY <1>2, Placing DEF Move
<1>3. UNCHANGED <<published, nested>> \/ \E p \in Promotions \cap DOMAIN pc : Move(p)
  BY DEF Next, vars, files, Stage, Check, Compare, Install, Write, Rename, Cleanup, Begin,
     BuilderReads, BuilderWrites, Stop
<1> QED
  BY <1>1, <1>2, <1>3

\* The manifests and files a step leaves alone stay as good as they were; what it
\* makes has to name published releases, and a run that comes to install has its
\* assets published.
LEMMA NamedFrame ==
  ASSUME TypeOK, Named, [Next]_vars, DOMAIN pc' = DOMAIN pc,
         \A p \in Promotions :
           \/ manifest'[p] = manifest[p]
           \/ \A e \in NamedIn(manifest'[p]) : e = Entry(p) \/ (<<e.tag, p.kind>> \in Places /\ There(e, <<e.tag, p.kind>>)),
         \A k \in Kinds : next'[k] # None => (next'[k].names = next[k].names /\ next[k] # None) \/ PublishedNames(next'[k].names, k),
         \A k \in Kinds : visible'[k] # None => (visible'[k].names = visible[k].names /\ visible[k] # None) \/ PublishedNames(visible'[k].names, k),
         compact' # None => compact' = compact \/ PublishedNames(compact', "firmware"),
         \A s \in DOMAIN pc : read'[s] # None => read'[s] = read[s] \/ PublishedNames(read'[s], "firmware"),
         \A p \in Promotions \cap DOMAIN pc : pc'[p] = "install" => pc[p] = "install" \/ There(Entry(p), Place(p))'
  PROVE  Named'
<1>1. \A e : \A d \in Places : There(e, d) => There(e, d)'
  BY PublishedStays, ThereStays
<1>2. ASSUME NEW names, NEW k, PublishedNames(names, k)
      PROVE  \A e \in NamedIn(names) : <<e.tag, k>> \in Places /\ There(e, <<e.tag, k>>)'
  BY <1>1, <1>2 DEF PublishedNames
<1>3. \A p \in Promotions : \A e \in NamedIn(manifest'[p]) :
        e = Entry(p) \/ (<<e.tag, p.kind>> \in Places /\ There(e, <<e.tag, p.kind>>)')
  BY <1>1 DEF Named
<1>4. \A k \in Kinds : next'[k] # None => PublishedNames(next[k].names, k)'
  BY <1>2 DEF Named, PublishedNames
<1>5. \A p \in Promotions \cap DOMAIN pc : pc'[p] = "install" => There(Entry(p), Place(p))'
  <2>1. \A p \in Promotions : Place(p) \in Places
    BY DEF Place, Places
  <2> QED
    BY <1>1, <2>1 DEF Named
<1> QED
  BY <1>1, <1>2, <1>3, <1>4, <1>5 DEF Named, PublishedNames

LEMMA NamedKept ==
  ASSUME TypeOK, Named, [Next]_vars
  PROVE  Named'
<1>0. DOMAIN pc \subseteq Promotions \cup Deploys
  BY PromotionAssumptions DEF TypeOK
<1>1. \A p \in Promotions : p.kind \in Kinds
  BY PromotionAssumptions DEF Kinds
<1> USE DEF Goes, files
<1>2. ASSUME NEW p \in Promotions \cap DOMAIN pc, Stage(p) PROVE Named'
  <2> DEFINE old == visible[p.kind]
             others == IF p.kind = "desktop" \/ old = None THEN {} ELSE {e \in NamedIn(old.names) : e.tag # p.tag}
  <2>1. PICK length \in Lengths(old) : \E rest \in [1..length -> others] :
          manifest' = [manifest EXCEPT ![p] = <<Entry(p)>> \o rest]
    BY <1>2 DEF Stage
  <2>2. PICK rest \in [1..length -> others] : manifest' = [manifest EXCEPT ![p] = <<Entry(p)>> \o rest]
    BY <2>1
  <2>3. length \in Nat
    BY <1>1 DEF Lengths, TypeOK, ManifestFile
  <2>4. \A e \in others : <<e.tag, p.kind>> \in Places /\ There(e, <<e.tag, p.kind>>)
    BY <1>1 DEF Named, PublishedNames
  <2>5. rest \in Seq(others) /\ Len(rest) = length
    BY <2>3, FunctionIsSeq
  <2>6. \A e \in NamedIn(<<Entry(p)>> \o rest) : e = Entry(p) \/ e \in others
    <3> HIDE DEF others, old
    <3>1. <<Entry(p)>> \in Seq({Entry(p)} \cup others) /\ rest \in Seq({Entry(p)} \cup others)
      BY <2>5
    <3>2. <<Entry(p)>> \o rest \in Seq({Entry(p)} \cup others)
      BY <3>1
    <3>3. NamedIn(<<Entry(p)>> \o rest) \subseteq {Entry(p)} \cup others
      BY <3>2, NamesOfSeq
    <3> QED
      BY <3>3
  <2>7. NamedIn(manifest'[p]) = NamedIn(<<Entry(p)>> \o rest)
    BY <2>2 DEF TypeOK
  <2>8. \A q \in Promotions : q # p => manifest'[q] = manifest[q]
    BY <2>2 DEF TypeOK
  <2>9. \A e \in NamedIn(manifest'[p]) : e = Entry(p) \/ (<<e.tag, p.kind>> \in Places /\ There(e, <<e.tag, p.kind>>))
    BY <2>4, <2>6, <2>7
  <2>10. /\ UNCHANGED <<next, visible, compact, read>> /\ DOMAIN pc' = DOMAIN pc
         /\ \A q \in Promotions \cap DOMAIN pc : pc'[q] = "install" => pc[q] = "install"
    BY <1>2 DEF Stage
  <2> QED
    BY <2>8, <2>9, <2>10, NamedFrame
<1>3. ASSUME NEW p \in Promotions \cap DOMAIN pc, Check(p) PROVE Named'
  BY <1>3, NamedFrame DEF Check
<1>4. ASSUME NEW p \in Promotions \cap DOMAIN pc, Compare(p) PROVE Named'
  <2>1. pc'[p] = "install" => There(Entry(p), Place(p))'
    BY <1>4, PromotionAssumptions, EntryIsEntry DEF Compare, Same, There
  <2> QED
    BY <1>4, <2>1, NamedFrame DEF Compare
<1>5. ASSUME NEW p \in Promotions \cap DOMAIN pc, Move(p) PROVE Named'
  <2>1. There(Entry(p), Place(p))'
    BY <1>5, Placing, EntryIsEntry DEF Move, There
  <2> QED
    BY <1>5, <2>1, NamedFrame DEF Move
<1>6. ASSUME NEW p \in Promotions \cap DOMAIN pc, Install(p) PROVE Named'
  <2>1. There(Entry(p), Place(p)) /\ Place(p) \in Places /\ Place(p) = <<Entry(p).tag, p.kind>>
    BY <1>6, EntryIsEntry DEF Install, Named, Place, Places
  <2>2. PublishedNames(manifest[p], p.kind)
    BY <2>1 DEF Named, PublishedNames
  <2>3. next'[p.kind].names = manifest[p] /\ \A k \in Kinds : k # p.kind => next'[k] = next[k]
    BY <1>1, <1>6 DEF Install, TypeOK, File
  <2> QED
    BY <1>6, <2>2, <2>3, NamedFrame DEF Install
<1>7. ASSUME NEW p \in Promotions \cap DOMAIN pc, Write(p) PROVE Named'
  <2>1. ASSUME NEW file \in {None} \cup ManifestFile, Filled(p, file) # None
        PROVE  file # None /\ Filled(p, file).names = file.names
    <3>1. File(p, FALSE) \in ManifestFile
      BY <1>7 DEF File, ManifestFile, TypeOK
    <3>2. File(p, FALSE).names = manifest[p] /\ File(p, TRUE).names = manifest[p]
      BY DEF File
    <3> QED
      BY <2>1, <3>1, <3>2, NoneIsNoFile DEF Filled
  <2>2. \A k \in Kinds : /\ next'[k] = next[k] \/ next'[k] = Filled(p, next[k])
                         /\ visible'[k] = visible[k] \/ visible'[k] = Filled(p, visible[k])
                         /\ next[k] \in {None} \cup ManifestFile /\ visible[k] \in {None} \cup ManifestFile
    BY <1>7 DEF Write, TypeOK
  <2> QED
    BY <1>7, <2>1, <2>2, NamedFrame DEF Write
<1>8. ASSUME NEW p \in Promotions \cap DOMAIN pc, Rename(p) PROVE Named'
  <2>1. \A k \in Kinds : next'[k] = next[k] \/ next'[k] = None
    BY <1>8 DEF Rename, TypeOK
  <2>2. \A k \in Kinds : visible'[k] = visible[k] \/ (visible'[k] = next[k] /\ PublishedNames(next[k].names, k))
    BY <1>1, <1>8 DEF Rename, TypeOK, Named
  <2>3. \A q \in Promotions \cap DOMAIN pc : pc'[q] = "install" => pc[q] = "install"
    BY <1>0, <1>8, AfterIsStep DEF Rename
  <2> QED
    BY <1>8, <2>1, <2>2, <2>3, NamedFrame DEF Rename
<1>9. ASSUME NEW p \in Promotions \cap DOMAIN pc, Cleanup(p) PROVE Named'
  <2>1. \A q \in Promotions : manifest'[q] = manifest[q] \/ manifest'[q] = <<>>
    BY <1>9 DEF Cleanup, TypeOK
  <2>2. NamedIn(<<>>) = {}
    BY DEF NamedIn
  <2> QED
    BY <1>9, <2>1, <2>2, NamedFrame DEF Cleanup
<1>10. ASSUME NEW s \in DOMAIN pc, Begin(s) PROVE Named'
  <2>1. \A q \in Promotions \cap DOMAIN pc : pc'[q] = "install" => pc[q] = "install"
    BY <1>0, <1>10, AfterIsStep DEF Begin
  <2> QED
    BY <1>10, <2>1, NamedFrame DEF Begin
<1>11. ASSUME NEW s \in DOMAIN pc, BuilderReads(s) PROVE Named'
  <2> DEFINE names == visible["firmware"].names
  <2>1. names \in Seq(Entries) /\ PublishedNames(names, "firmware")
    BY <1>11 DEF BuilderReads, Kinds, TypeOK, ManifestFile, Named
  <2>2. NamedIn(CompactManifest(names)) \subseteq NamedIn(names)
    <3> HIDE DEF names
    <3>1. names \in Seq(NamedIn(names)) /\ Len(names) \in Nat
      BY <2>1 DEF NamedIn
    <3>2. CompactManifest(names) \in Seq(NamedIn(names))
      BY <3>1, PromotionAssumptions DEF CompactManifest
    <3> QED
      BY <3>2 DEF NamedIn
  <2>3. PublishedNames(CompactManifest(names), "firmware")
    BY <2>1, <2>2 DEF PublishedNames
  <2>4. \A q \in DOMAIN pc : read'[q] = read[q] \/ read'[q] = CompactManifest(names)
    BY <1>11 DEF BuilderReads, TypeOK
  <2> QED
    BY <1>11, <2>3, <2>4, NamedFrame DEF BuilderReads
<1>12. ASSUME NEW s \in DOMAIN pc, BuilderWrites(s) PROVE Named'
  <2>1. \A q \in Promotions \cap DOMAIN pc : pc'[q] = "install" => pc[q] = "install"
    BY <1>0, <1>12, AfterIsStep DEF BuilderWrites
  <2>2. compact' # None => PublishedNames(compact', "firmware")
    BY <1>12 DEF BuilderWrites, Named
  <2>3. \A q \in DOMAIN pc : read'[q] = read[q] \/ read'[q] = None
    BY <1>12 DEF BuilderWrites, TypeOK
  <2> QED
    BY <1>12, <2>1, <2>2, <2>3, NamedFrame DEF BuilderWrites
<1>13. ASSUME NEW s \in DOMAIN pc, Stop(s) PROVE Named'
  <2>1. \A q \in DOMAIN pc : read'[q] = read[q] \/ read'[q] = None
    BY <1>13 DEF Stop, TypeOK
  <2> QED
    BY <1>13, <2>1, NamedFrame DEF Stop
<1>14. CASE UNCHANGED vars
  BY <1>14, NamedFrame DEF vars
<1> QED
  BY <1>2, <1>3, <1>4, <1>5, <1>6, <1>7, <1>8, <1>9, <1>10, <1>11, <1>12, <1>13, <1>14 DEF Next

LEMMA IInvHolds == Spec => []IInv
<1>1. IInv /\ [Next]_vars => IInv'
  BY TypesKept, NamedKept DEF IInv
<1> QED
  BY <1>1, InitInv, PTL DEF Spec

\* Whatever releases are staged under one tag, the first that was published (the mv
\* of promote-release-assets.sh) is never changed by another.
THEOREM PublishedForGood == Spec => ReleaseNeverChanges
<1>1. TypeOK /\ [Next]_vars =>
        \A d \in Places : /\ published[d] # None => published'[d] = published[d]
                          /\ nested[d] # None => nested'[d] = nested[d]
  BY PublishedStays
<1>2. IInv => TypeOK
  BY DEF IInv
<1> QED
  BY <1>1, <1>2, IInvHolds, PTL DEF Spec, ReleaseNeverChanges

-----------------------------------------------------------------------------
\* How far a promotion that nobody disturbs has come.
Progress(p) ==
  /\ pc[p] = "move" => published[Place(p)] = None
  /\ pc[p] \in {"install", "write", "rename", "read", "replace", "cleanup"} => published[Place(p)] = p.content
  /\ pc[p] = "write" => next[p.kind] = File(p, FALSE)
  /\ pc[p] = "rename" => next[p.kind] = File(p, TRUE)
  /\ pc[p] \in {"read", "replace", "cleanup"} => visible[p.kind].names = manifest[p]
  /\ pc[p] \in {"read", "replace"} => p.kind = "firmware"
  /\ pc[p] = "replace" => read[p] = CompactManifest(manifest[p])
  /\ pc[p] = "cleanup" /\ p.kind = "firmware" => compact = CompactManifest(manifest[p])

Whole == \A k \in Kinds : visible[k] # None => visible[k].whole

Alone ==
  ~overlapped =>
    /\ \A s, t \in DOMAIN pc : s # t => pc[s] \in Resting \/ pc[t] \in Resting
    /\ Whole
    /\ \A d \in Places : nested[d] = None
    /\ \A p \in Promotions \cap DOMAIN pc : Progress(p)

LEMMA AloneInit == Init => Alone
BY DEF Init, Alone, Whole, Progress, Resting

\* A step of a run that is alone: only its own progress is to be shown.
LEMMA AloneFrame ==
  ASSUME TypeOK, Alone, NEW s \in DOMAIN pc, NEW from \in Step \ Resting, NEW to \in Step, Goes(s, from, to),
         ~overlapped => Whole' /\ (\A d \in Places : nested'[d] = None) /\ (s \in Promotions => Progress(s)')
  PROVE  Alone'
<1>1. /\ pc[s] \notin Resting /\ overlapped' = overlapped
      /\ DOMAIN pc' = DOMAIN pc /\ \A q \in DOMAIN pc : q # s => pc'[q] = pc[q]
  BY DEF Goes, TypeOK
<1>2. ~overlapped => \A q \in DOMAIN pc : q # s => pc'[q] \in Resting
  BY <1>1 DEF Alone
<1>3. ~overlapped => \A q \in Promotions \cap DOMAIN pc : q # s => Progress(q)'
  BY <1>1, <1>2 DEF Progress, Resting
<1> QED
  BY <1>1, <1>2, <1>3 DEF Alone

LEMMA AloneKept ==
  ASSUME TypeOK, Alone, [Next]_vars
  PROVE  Alone'
<1>0. /\ DOMAIN pc \subseteq Promotions \cup Deploys
      /\ \A p \in Promotions : p.kind \in Kinds /\ Place(p) \in Places /\ p.content # None
  BY PromotionAssumptions DEF TypeOK, Kinds, Places, Place
<1>1. ASSUME NEW p \in Promotions \cap DOMAIN pc, Stage(p) PROVE Alone'
  <2>1. /\ pc' = [pc EXCEPT ![p] = "staged"] /\ pc[p] \in Resting
        /\ UNCHANGED <<runs, published, nested, next, visible, compact, read, overlapped>>
        /\ \A q \in Promotions : q # p => manifest'[q] = manifest[q]
    BY <1>1 DEF Stage, Resting, TypeOK, files
  <2>2. \A q \in Promotions \cap DOMAIN pc : Progress(q) => Progress(q)'
    <3>1. Progress(p)'
      BY <2>1 DEF Progress, TypeOK
    <3>2. ASSUME NEW q \in Promotions \cap DOMAIN pc, q # p, Progress(q) PROVE Progress(q)'
      BY <2>1, <3>2 DEF Progress, File, TypeOK
    <3> QED
      BY <3>1, <3>2
  <2>3. DOMAIN pc' = DOMAIN pc /\ \A q \in DOMAIN pc : q # p => pc'[q] = pc[q]
    BY <2>1 DEF TypeOK
  <2>4. pc'[p] \in Resting
    BY <2>1 DEF TypeOK, Resting
  <2> QED
    BY <2>1, <2>2, <2>3, <2>4 DEF Alone, Whole
<1>2. ASSUME NEW p \in Promotions \cap DOMAIN pc, Check(p) PROVE Alone'
  <2>1. ~overlapped => Whole' /\ \A d \in Places : nested'[d] = None
    BY <1>2 DEF Check, files, Alone, Whole
  <2>2. Progress(p)'
    BY <1>2 DEF Check, Goes, files, Progress, TypeOK
  <2> QED
    BY <1>2, <2>1, <2>2, AloneFrame DEF Check, Step, Resting
<1>3. ASSUME NEW p \in Promotions \cap DOMAIN pc, Compare(p) PROVE Alone'
  <2>1. ~overlapped => Whole' /\ \A d \in Places : nested'[d] = None
    BY <1>3 DEF Compare, files, Alone, Whole
  <2>2. Progress(p)'
    BY <1>3, AfterIsStep DEF Compare, Same, Goes, files, Progress, TypeOK
  <2> QED
    BY <1>3, <2>1, <2>2, AloneFrame, AfterIsStep DEF Compare, Step, Resting
<1>4. ASSUME NEW p \in Promotions \cap DOMAIN pc, Move(p) PROVE Alone'
  <2>1. pc[p] = "move" /\ UNCHANGED visible /\ pc'[p] = "install"
    BY <1>4, AfterIsStep DEF Move, Goes, TypeOK
  <2>2. ~overlapped => published'[Place(p)] = p.content /\ UNCHANGED nested
    BY <1>0, <1>4, <2>1 DEF Move, Placed, Alone, Progress, TypeOK
  <2>3. ~overlapped => Whole' /\ \A d \in Places : nested'[d] = None
    BY <2>1, <2>2 DEF Alone, Whole
  <2>4. ~overlapped => Progress(p)'
    BY <2>1, <2>2 DEF Progress
  <2> QED
    BY <1>4, <2>3, <2>4, AloneFrame, AfterIsStep DEF Move, Step, Resting
<1>5. ASSUME NEW p \in Promotions \cap DOMAIN pc, Install(p) PROVE Alone'
  <2>1. /\ pc[p] = "install" /\ pc'[p] = "write" /\ UNCHANGED <<manifest, runs, published, nested, visible>>
        /\ next'[p.kind] = File(p, FALSE)
    BY <1>0, <1>5 DEF Install, Goes, TypeOK
  <2>2. File(p, FALSE)' = File(p, FALSE)
    BY <2>1 DEF File
  <2>3. ~overlapped => Whole' /\ \A d \in Places : nested'[d] = None
    BY <2>1 DEF Alone, Whole
  <2>4. ~overlapped => Progress(p)'
    BY <2>1, <2>2 DEF Alone, Progress
  <2> QED
    BY <1>5, <2>3, <2>4, AloneFrame DEF Install, Step, Resting
<1>6. ASSUME NEW p \in Promotions \cap DOMAIN pc, Write(p) PROVE Alone'
  <2>1. /\ pc[p] = "write" /\ pc'[p] = "rename" /\ UNCHANGED <<manifest, runs, published, nested>>
        /\ next'[p.kind] = Filled(p, next[p.kind])
        /\ \A k \in Kinds : visible'[k] = visible[k] \/ visible'[k] = Filled(p, visible[k])
    BY <1>0, <1>6 DEF Write, Goes, TypeOK
  <2>2. File(p, TRUE)' = File(p, TRUE) /\ File(p, TRUE).whole = TRUE
    BY <2>1 DEF File
  <2>3. File(p, FALSE) \in ManifestFile
    BY DEF File, ManifestFile, TypeOK
  <2>4. Whole => Whole'
    BY <2>1, <2>2, <2>3, NoneIsNoFile DEF Whole, Filled
  <2>5. ~overlapped => Whole' /\ \A d \in Places : nested'[d] = None
    BY <2>1, <2>4 DEF Alone
  <2>6. ~overlapped => Progress(p)'
    BY <2>1, <2>2 DEF Alone, Progress, Filled
  <2> QED
    BY <1>6, <2>5, <2>6, AloneFrame DEF Write, Step, Resting
<1>7. ASSUME NEW p \in Promotions \cap DOMAIN pc, Rename(p) PROVE Alone'
  <2>1. File(p, TRUE).whole = TRUE /\ File(p, TRUE).names = manifest[p]
    BY DEF File
  <2>2. After(p, "manifest") = IF p.kind = "firmware" THEN "read" ELSE "cleanup"
    BY DEF After
  <2>3. /\ visible'[p.kind] = next[p.kind] /\ \A k \in Kinds : k # p.kind => visible'[k] = visible[k]
        /\ pc'[p] = After(p, "manifest") /\ pc[p] = "rename" /\ UNCHANGED <<published, nested, manifest>>
    BY <1>0, <1>7 DEF Rename, Goes, TypeOK
  <2>4. ~overlapped => next[p.kind] = File(p, TRUE) /\ published[Place(p)] = p.content
    BY <2>3 DEF Alone, Progress
  <2>5. ~overlapped => Whole' /\ \A d \in Places : nested'[d] = None
    BY <2>1, <2>3, <2>4 DEF Alone, Whole
  <2>6. ~overlapped => Progress(p)'
    BY <2>1, <2>2, <2>3, <2>4 DEF Progress
  <2> QED
    BY <1>7, <2>5, <2>6, AloneFrame, AfterIsStep DEF Rename, Step, Resting
<1>8. ASSUME NEW p \in Promotions \cap DOMAIN pc, Cleanup(p) PROVE Alone'
  <2>1. ~overlapped => Whole' /\ \A d \in Places : nested'[d] = None
    BY <1>8 DEF Cleanup, files, Alone, Whole
  <2>2. Progress(p)'
    BY <1>8 DEF Cleanup, Goes, Progress, TypeOK
  <2> QED
    BY <1>8, <2>1, <2>2, AloneFrame DEF Cleanup, Step, Resting
<1>9. ASSUME NEW s \in DOMAIN pc, Begin(s) PROVE Alone'
  <2>1. After(s, "begin") = IF s \in Deploys THEN "read" ELSE "check"
    BY DEF After
  <2>2. ~overlapped' => ~overlapped /\ \A other \in DOMAIN pc : pc[other] \in Resting
    BY <1>9 DEF Begin
  <2>3. /\ \A q \in DOMAIN pc : q # s => pc'[q] = pc[q]
        /\ DOMAIN pc' = DOMAIN pc /\ pc'[s] = After(s, "begin") /\ UNCHANGED files
    BY <1>9 DEF Begin, TypeOK
  <2>4. ~overlapped' => \A q \in Promotions \cap DOMAIN pc' : Progress(q)'
    BY <2>1, <2>2, <2>3, PromotionAssumptions DEF Progress, Resting
  <2> QED
    BY <2>2, <2>3, <2>4 DEF Alone, Whole, files
<1>10. ASSUME NEW s \in DOMAIN pc, BuilderReads(s) PROVE Alone'
  <2>1. /\ pc[s] = "read" /\ pc'[s] = "replace" /\ UNCHANGED <<manifest, files>>
        /\ read'[s] = CompactManifest(visible["firmware"].names)
    BY <1>10 DEF BuilderReads, Goes, TypeOK
  <2>2. ~overlapped => Whole' /\ \A d \in Places : nested'[d] = None
    BY <2>1 DEF files, Alone, Whole
  <2>3. ~overlapped => (s \in Promotions => Progress(s)')
    BY <2>1 DEF files, Alone, Progress
  <2> QED
    BY <1>10, <2>2, <2>3, AloneFrame DEF BuilderReads, Step, Resting
<1>11. ASSUME NEW s \in DOMAIN pc, BuilderWrites(s) PROVE Alone'
  <2>1. s \in Promotions => After(s, "builder") = "cleanup"
    BY PromotionAssumptions DEF After
  <2>2. /\ pc[s] = "replace" /\ pc'[s] = After(s, "builder") /\ UNCHANGED <<manifest, published, nested, next, visible>>
        /\ compact' = read[s]
    BY <1>11 DEF BuilderWrites, Goes, TypeOK
  <2>3. ~overlapped => Whole' /\ \A d \in Places : nested'[d] = None
    BY <2>2 DEF Alone, Whole
  <2>4. ~overlapped => (s \in Promotions => Progress(s)')
    BY <2>1, <2>2 DEF Alone, Progress
  <2> QED
    BY <1>0, <1>11, <2>3, <2>4, AloneFrame, AfterIsStep DEF BuilderWrites, Step, Resting
<1>12. ASSUME NEW s \in DOMAIN pc, Stop(s) PROVE Alone'
  <2>1. /\ pc' = [pc EXCEPT ![s] = "stopped"] /\ UNCHANGED <<overlapped, files, manifest, runs>>
        /\ \A q \in DOMAIN pc : q # s => read'[q] = read[q]
    BY <1>12 DEF Stop, TypeOK
  <2>2. /\ DOMAIN pc' = DOMAIN pc /\ \A q \in DOMAIN pc : q # s => pc'[q] = pc[q]
        /\ pc'[s] \in Resting /\ pc'[s] = "stopped"
    BY <2>1 DEF TypeOK, Resting
  <2>3. ASSUME NEW q \in Promotions \cap DOMAIN pc, Progress(q) PROVE Progress(q)'
    BY <2>1, <2>2, <2>3 DEF Progress, File, files
  <2> QED
    BY <2>1, <2>2, <2>3 DEF Alone, Whole, files
<1>13. CASE UNCHANGED vars
  BY <1>13 DEF vars, files, Alone, Whole, Progress, File
<1> QED
  BY <1>1, <1>2, <1>3, <1>4, <1>5, <1>6, <1>7, <1>8, <1>9, <1>10, <1>11, <1>12, <1>13 DEF Next

\* Cleanup is how a promotion ends.
LEMMA EndsInCleanup ==
  ASSUME TypeOK, [Next]_vars, NEW p \in Promotions \cap DOMAIN pc, pc[p] # "done", pc'[p] = "done"
  PROVE  Cleanup(p)
<1>1. \A part \in {"begin", "assets", "manifest", "builder"} : After(p, part) # "done"
  BY PromotionAssumptions DEF After
<1> USE DEF TypeOK
<1>2. ASSUME NEW q \in Promotions \cap DOMAIN pc,
             Stage(q) \/ Check(q) \/ Compare(q) \/ Move(q) \/ Install(q) \/ Write(q) \/ Rename(q)
      PROVE  FALSE
  BY <1>1, <1>2 DEF Goes, Stage, Check, Compare, Move, Install, Write, Rename
<1>3. ASSUME NEW s \in DOMAIN pc, Begin(s) \/ BuilderReads(s) \/ BuilderWrites(s) \/ Stop(s)
      PROVE  FALSE
  BY <1>1, <1>3 DEF Goes, Begin, BuilderReads, BuilderWrites, Stop
<1>4. ASSUME NEW q \in Promotions \cap DOMAIN pc, Cleanup(q)
      PROVE  q = p
  BY <1>4 DEF Goes, Cleanup
<1>5. ~UNCHANGED vars
  BY DEF vars
<1> QED
  BY <1>2, <1>3, <1>4, <1>5 DEF Next

\* While none overlap, however often promotions stop and are run again, readers see
\* whole manifests only, and a promotion that ends has published its release as it
\* was staged and is named by both manifests ("promotes it atomically",
\* docs/firmware-updates.md).
THEOREM PromotesAtomically == Spec => AloneIsAtomic
<1>1. TypeOK /\ Alone /\ [Next]_vars => Alone'
  BY AloneKept
<1>2. TypeOK /\ Alone /\ Alone' /\ [Next]_vars =>
        (~overlapped' =>
           /\ \A k \in Kinds : visible'[k] # None => visible'[k].whole
           /\ \A p \in Promotions \cap DOMAIN pc :
                pc[p] # "done" /\ pc'[p] = "done" =>
                  /\ published'[Place(p)] = p.content /\ nested'[Place(p)] = None
                  /\ visible'[p.kind].names = manifest[p]
                  /\ p.kind = "firmware" => compact' = CompactManifest(manifest[p]))
  <2> SUFFICES ASSUME TypeOK, Alone, Alone', [Next]_vars, ~overlapped',
                      NEW p \in Promotions \cap DOMAIN pc, pc[p] # "done", pc'[p] = "done"
               PROVE  /\ published'[Place(p)] = p.content /\ nested'[Place(p)] = None
                      /\ visible'[p.kind].names = manifest[p]
                      /\ p.kind = "firmware" => compact' = CompactManifest(manifest[p])
    BY DEF Alone, Whole
  <2>1. Cleanup(p)
    BY EndsInCleanup
  <2>2. Place(p) \in Places
    BY DEF Place, Places
  <2> QED
    BY <2>1, <2>2 DEF Cleanup, Goes, files, Alone, Progress
<1>3. IInv => TypeOK
  BY DEF IInv
<1> QED
  BY <1>1, <1>2, <1>3, AloneInit, IInvHolds, PTL DEF Spec, AloneIsAtomic

\* Whatever releases are staged, and wherever promotions (promote-release-assets.sh)
\* overlap, stop and are run again, the hashes of a manifest, the one
\* build-controller-release-manifest.py makes for controllers too, are those of the
\* assets served, or of a directory that overlapping promotions have nested in them.
THEOREM ManifestsAreBacked == Spec => []PromotionInv
<1>1. IInv /\ Alone => ManifestsNamePublished
  <2> SUFFICES ASSUME IInv, Alone PROVE ManifestsNamePublished
    OBVIOUS
  <2>1. "firmware" \in Kinds
    BY DEF Kinds
  <2>2. \A e : \A d \in Places : There(e, d) => Backed(e, d)
    BY DEF Alone, There, Backed
  <2> QED
    BY <2>1, <2>2 DEF IInv, Named, PublishedNames, ManifestsNamePublished
<1>2. IInv /\ Alone => PromotionInv
  BY <1>1 DEF PromotionInv, IInv
<1>3. IInv /\ Alone /\ [Next]_vars => Alone'
  BY AloneKept DEF IInv
<1> QED
  BY <1>2, <1>3, AloneInit, IInvHolds, PTL DEF Spec
=============================================================================
