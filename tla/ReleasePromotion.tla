-------------------------- MODULE ReleasePromotion --------------------------
(***************************************************************************)
(* The public update origin: src/deploy/promote-release-assets.sh, which   *)
(* publishes one staged release, and build-controller-release-manifest.py, *)
(* which it and deploy-local.sh run.  The scripts take no lock, so they    *)
(* overlap, and one of them stops wherever a command of it fails or it is  *)
(* killed; somebody then runs it again, or stages the release again.       *)
(*                                                                         *)
(* A directory is known by its content, a manifest by its entries, newest  *)
(* first: a tag, and the content its hashes are of.  A file under a name   *)
(* is its own thing: install unlinks what is there and writes a new file,  *)
(* which goes on being written wherever it is renamed to.                  *)
(***************************************************************************)
EXTENDS Naturals, Sequences

CONSTANTS Promotions,     \* staged releases: tag, kind, content
          Deploys,        \* runs of deploy-local.sh
          Workloads,      \* the sets of promotions and deploys that come together
          MaxControllerReleases,
          MaxRuns,        \* bound on the runs of one promotion
          MaxStops,       \* bound on runs that stop half-way
          None

ASSUME PromotionAssumptions ==
  /\ \A p \in Promotions : p.kind \in {"firmware", "desktop"}
  /\ Promotions \cap Deploys = {} /\ Workloads \subseteq SUBSET (Promotions \cup Deploys)
  /\ MaxControllerReleases \in Nat /\ MaxRuns \in Nat /\ MaxStops \in Nat
  /\ None \notin {p.content : p \in Promotions}

VARIABLES pc,             \* the next step of each run
          runs,           \* how often each was run
          source,         \* is the staged directory in the incoming directory?
          manifest,       \* the staged manifest
          published,      \* releases/<tag>/<kind>: content, or None
          nested,         \* a directory of that kind inside it: content, or None
          next,           \* releases.json.next and latest.json.next: a file, or None
          visible,        \* releases.json and latest.json
          compact,        \* controller-releases.json
          read,           \* the compact manifest a builder has made
          stops,
          overlapped      \* did two runs ever overlap? (history)

files == <<published, nested, next, visible, compact>>
vars == <<pc, runs, source, manifest, files, read, stops, overlapped>>

Kinds == {"firmware", "desktop"}
Places == {<<p.tag, p.kind>> : p \in Promotions}

Place(p) == <<p.tag, p.kind>>
Tags == {p.tag : p \in Promotions}
Contents == {p.content : p \in Promotions}

\* What a manifest says of a release.
Entry(p) == [tag |-> p.tag, content |-> p.content]
Entries == {Entry(p) : p \in Promotions}

Step == {"idle", "staged", "check", "compare", "move", "install", "write", "rename",
         "read", "replace", "cleanup", "done", "stopped"}

Resting == {"idle", "staged", "done", "stopped"}

\* A file under a manifest's name: the run that writes it, and what it is to say.
ManifestFile == [run: Promotions \X (0..MaxRuns), names: Seq(Entries), whole: BOOLEAN]

ASSUME NoneIsNoFile == None \notin ManifestFile

TypeOK ==
  /\ pc \in [DOMAIN pc -> Step] /\ DOMAIN pc \in Workloads
  /\ runs \in [DOMAIN pc -> 0..MaxRuns]
  /\ source \in [Promotions -> BOOLEAN]
  /\ manifest \in [Promotions -> Seq(Entries)]
  /\ published \in [Places -> Contents \cup {None}] /\ nested \in [Places -> Contents \cup {None}]
  /\ next \in [Kinds -> {None} \cup ManifestFile] /\ visible \in [Kinds -> {None} \cup ManifestFile]
  /\ compact # None => compact \in Seq(Entries)
  /\ DOMAIN read = DOMAIN pc /\ \A s \in DOMAIN pc : read[s] # None => read[s] \in Seq(Entries)
  /\ stops \in 0..MaxStops /\ overlapped \in BOOLEAN

Init ==
  /\ \E workload \in Workloads : pc = [s \in workload |-> "idle"]
  /\ runs = [s \in DOMAIN pc |-> 0]
  /\ source = [p \in Promotions |-> FALSE]
  /\ manifest = [p \in Promotions |-> <<>>]
  /\ published = [d \in Places |-> None] /\ nested = [d \in Places |-> None]
  /\ next = [k \in Kinds |-> None] /\ visible = [k \in Kinds |-> None]
  /\ compact = None
  /\ read = [s \in DOMAIN pc |-> None]
  /\ stops = 0
  /\ overlapped = FALSE

-----------------------------------------------------------------------------
\* What a run does after a part of it: the assets, the manifest, the builder.
\* Mutant: the controllers' manifest is left to the next deployment.
AfterNoBuilder(s, part) ==
  CASE part = "begin" -> IF s \in Deploys THEN "read" ELSE "check"
    [] part = "assets" -> "install"
    [] part = "manifest" -> "cleanup"
    [] part = "builder" -> IF s \in Deploys THEN "done" ELSE "cleanup"

After(s, part) ==
  CASE part = "begin" -> IF s \in Deploys THEN "read" ELSE "check"
    [] part = "assets" -> "install"
    [] part = "manifest" -> IF s.kind = "firmware" THEN "read" ELSE "cleanup"
    [] part = "builder" -> IF s \in Deploys THEN "done" ELSE "cleanup"

Goes(s, from, to) ==
  /\ pc[s] = from /\ pc' = [pc EXCEPT ![s] = to]
  /\ UNCHANGED <<runs, stops, overlapped>>

NamedIn(names) == {names[n] : n \in DOMAIN names}

Lengths(file) == IF file = None THEN {0} ELSE 0..Len(file.names)

\* The publisher stages a release: the whole directory, and a manifest that puts it
\* before releases visible then, all or some (latest.json is about one).  It may do
\* so again.
Stage(p) ==
  /\ pc[p] \in {"idle", "stopped", "done"} /\ runs[p] < MaxRuns
  /\ pc' = [pc EXCEPT ![p] = "staged"]
  /\ source' = [source EXCEPT ![p] = TRUE]
  /\ LET old == visible[p.kind]
         others == IF p.kind = "desktop" \/ old = None THEN {} ELSE {e \in NamedIn(old.names) : e.tag # p.tag}
     IN  /\ old # None => old.whole
         /\ \E length \in Lengths(old) : \E rest \in [1..length -> others] :
              /\ \A m, n \in 1..length : rest[m] = rest[n] => m = n
              /\ manifest' = [manifest EXCEPT ![p] = <<Entry(p)>> \o rest]
  /\ UNCHANGED <<runs, files, read, stops, overlapped>>

\* A run begins, with its staged directory there; one that stopped is run again.
Begin(s) ==
  /\ pc[s] \in (IF s \in Deploys THEN {"idle"} ELSE {"staged", "stopped"})
  /\ s \in Promotions => source[s]
  /\ runs[s] < MaxRuns /\ runs' = [runs EXCEPT ![s] = @ + 1]
  /\ pc' = [pc EXCEPT ![s] = After(s, "begin")]
  /\ overlapped' = (overlapped \/ \E other \in DOMAIN pc : pc[other] \notin Resting)
  /\ UNCHANGED <<source, manifest, files, read, stops>>

\* [[ -e $destination ]]
Check(p) ==
  /\ Goes(p, "check", IF published[Place(p)] = None THEN "move" ELSE "compare")
  /\ UNCHANGED <<source, manifest, files, read>>

\* Mutant: only the names of the files are compared.
SameNames(p) == nested[Place(p)] = None

\* diff -qr
Same(p) == published[Place(p)] = p.content /\ nested[Place(p)] = None

\* The staged directory goes, as it is there already; a difference ends the run.
Compare(p) ==
  /\ Goes(p, "compare", IF Same(p) THEN After(p, "assets") ELSE "stopped")
  /\ source' = [source EXCEPT ![p] = ~Same(p)]
  /\ UNCHANGED <<manifest, files, read>>

\* Mutant: the directory in the way is removed.
PlacedReplacing(p) ==
  published' = [published EXCEPT ![Place(p)] = p.content] /\ UNCHANGED nested

\* mv renames the directory, or moves it into one that has appeared there, unless
\* that already has one of the name.
Placed(p) ==
  IF published[Place(p)] = None
  THEN published' = [published EXCEPT ![Place(p)] = p.content] /\ UNCHANGED nested
  ELSE /\ nested[Place(p)] = None
       /\ nested' = [nested EXCEPT ![Place(p)] = p.content]
       /\ UNCHANGED published

Move(p) ==
  /\ Goes(p, "move", After(p, "assets"))
  /\ Placed(p)
  /\ source' = [source EXCEPT ![p] = FALSE]
  /\ UNCHANGED <<manifest, next, visible, compact, read>>

\* install makes the file, and fills it.
File(p, whole) == [run |-> <<p, runs[p]>>, names |-> manifest[p], whole |-> whole]

Install(p) ==
  /\ Goes(p, "install", "write")
  /\ next' = [next EXCEPT ![p.kind] = File(p, FALSE)]
  /\ UNCHANGED <<source, manifest, published, nested, visible, compact, read>>

Filled(p, file) == IF file = File(p, FALSE) THEN File(p, TRUE) ELSE file

Write(p) ==
  /\ Goes(p, "write", "rename")
  /\ next' = [next EXCEPT ![p.kind] = Filled(p, @)]
  /\ visible' = [visible EXCEPT ![p.kind] = Filled(p, @)]
  /\ UNCHANGED <<source, manifest, published, nested, compact, read>>

\* mv takes whichever file has the name by now.
Rename(p) ==
  /\ next[p.kind] # None
  /\ Goes(p, "rename", After(p, "manifest"))
  /\ visible' = [visible EXCEPT ![p.kind] = next[p.kind]]
  /\ next' = [next EXCEPT ![p.kind] = None]
  /\ UNCHANGED <<source, manifest, published, nested, compact, read>>

\* releases[:MAX_CONTROLLER_RELEASES]
CompactManifest(names) ==
  SubSeq(names, 1, IF Len(names) < MaxControllerReleases THEN Len(names) ELSE MaxControllerReleases)

\* json.loads raises on a manifest that is not there, or not whole.
BuilderReads(s) ==
  /\ visible["firmware"] # None /\ visible["firmware"].whole
  /\ Goes(s, "read", "replace")
  /\ read' = [read EXCEPT ![s] = CompactManifest(visible["firmware"].names)]
  /\ UNCHANGED <<source, manifest, files>>

\* write_atomic: a file of the builder's own, and os.replace.
BuilderWrites(s) ==
  /\ Goes(s, "replace", After(s, "builder"))
  /\ compact' = read[s]
  /\ read' = [read EXCEPT ![s] = None]
  /\ UNCHANGED <<source, manifest, published, nested, next, visible>>

Cleanup(p) ==
  /\ Goes(p, "cleanup", "done")
  /\ source' = [source EXCEPT ![p] = FALSE]
  /\ manifest' = [manifest EXCEPT ![p] = <<>>]
  /\ UNCHANGED <<files, read>>

\* A command fails and set -e ends the run, or the run is killed; what has no other
\* way on (a file already renamed, a manifest not whole) ends like this too.
Stop(s) ==
  /\ pc[s] \notin Resting /\ stops < MaxStops
  /\ pc' = [pc EXCEPT ![s] = "stopped"]
  /\ stops' = stops + 1
  /\ read' = [read EXCEPT ![s] = None]
  /\ UNCHANGED <<runs, source, manifest, files, overlapped>>

Next ==
  \/ \E p \in Promotions \cap DOMAIN pc :
       \/ Stage(p) \/ Check(p) \/ Compare(p) \/ Move(p)
       \/ Install(p) \/ Write(p) \/ Rename(p) \/ Cleanup(p)
  \/ \E s \in DOMAIN pc : Begin(s) \/ BuilderReads(s) \/ BuilderWrites(s) \/ Stop(s)

Spec == Init /\ [][Next]_vars

-----------------------------------------------------------------------------
\* Immutable URLs: what was once published under a path keeps its bytes, through any
\* overlap of runs of the same release, with the same content or another.
ReleaseNeverChanges ==
  [][\A d \in Places : /\ published[d] # None => published'[d] = published[d]
                       /\ nested[d] # None => nested'[d] = nested[d]]_vars

\* The bytes an entry's hashes are of are those served under its path; or, after two
\* promotions of the release passed the -e test together, those of the directory that
\* landed inside the one that is served.
Backed(e, d) ==
  /\ published[d] # None
  /\ published[d] = e.content \/ (overlapped /\ nested[d] = e.content)

\* A controller or an app that reads a manifest finds, of every release it names, the
\* assets under its path, and their hashes agree with the manifest, wherever a
\* promotion has stopped and whichever file its mv took.  The one exception is a
\* release two overlapping promotions have nested: a manifest may then have the hashes
\* of the inner directory.
ManifestsNamePublished ==
  /\ \A k \in Kinds : visible[k] # None =>
       \A e \in NamedIn(visible[k].names) : Backed(e, <<e.tag, k>>)
  /\ compact # None => \A e \in NamedIn(compact) : Backed(e, <<e.tag, "firmware">>)

\* Everything is of its type, and the manifests tell of what is there.
PromotionInv == TypeOK /\ ManifestsNamePublished

\* "Promotes it atomically": as long as runs do not overlap, and though they stop
\* anywhere and are run again, readers never see part of a manifest; and a run that
\* ends has published its own release as it was staged, and made both manifests of it.
AloneIsAtomic ==
  [][~overlapped' =>
       /\ \A k \in Kinds : visible'[k] # None => visible'[k].whole
       /\ \A p \in Promotions \cap DOMAIN pc :
            pc[p] # "done" /\ pc'[p] = "done" =>
              /\ published'[Place(p)] = p.content /\ nested'[Place(p)] = None
              /\ visible'[p.kind].names = manifest[p]
              /\ p.kind = "firmware" => compact' = CompactManifest(manifest[p])]_vars
=============================================================================
