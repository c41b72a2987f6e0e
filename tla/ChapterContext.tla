---------------------------- MODULE ChapterContext ----------------------------
(***************************************************************************)
(* The state a chapter keeps across its image jobs (chapter_session.rs and *)
(* its callers in pipeline_adapter.rs): the session, with the surface and  *)
(* the analysis of each page, and the dialogue context, with one unit per  *)
(* region.  Each store has its own lock, so an operation on both is two    *)
(* steps, and jobs of replaced page sources run on until their next        *)
(* cancellation boundary.                                                  *)
(*                                                                         *)
(* One chapter.  A revision stands for a source digest; the regions found  *)
(* in it, their text and their stable ids all follow from it.              *)
(***************************************************************************)
EXTENDS Naturals

CONSTANTS
    Pages,          \* sourceIndex
    Orders,         \* reading orders of regions
    Revisions,      \* sourceSha256
    RegionsOf,      \* the regions found in a revision, by reading order
    Jobs,
    PageOf, RevisionOf,
    Replays         \* jobs answered from the persistent result cache

None == "none"

ASSUME JobsAssumption ==
    /\ PageOf \in [Jobs -> Pages]
    /\ RevisionOf \in [Jobs -> Revisions]
    /\ RegionsOf \in [Revisions -> SUBSET Orders]
    /\ Replays \subseteq Jobs
    /\ None \notin Revisions

VARIABLES
    surface,        \* ChapterSession.surfaces: revision of each page
    analysis,       \* ChapterSession.analyses: <<revision, order>> of each region
    complete,       \* pages whose analysis is complete
    unit,           \* ChapterContextStore: the unit at each position
    at,             \* where each job stands
    found,          \* page_region_plans of each job
    cancelled,      \* jobs whose cancel flag is set
    chapter         \* close_chapter

vars    == <<surface, analysis, complete, unit, at, found, cancelled, chapter>>
session == <<surface, analysis, complete>>

\* A unit: the revision of its source text and of its translation.
Unit   == [source : Revisions \cup {None}, translation : Revisions \cup {None}]
NoUnit == [source |-> None, translation |-> None]

TypeOK ==
    /\ surface \in [Pages -> Revisions \cup {None}]
    /\ analysis \in [Pages -> SUBSET (Revisions \X Orders)]
    /\ complete \subseteq Pages
    /\ unit \in [Pages \X Orders -> Unit]
    /\ at \in [Jobs -> {"new", "purge", "boundary", "analysing", "register", "registerLast",
                        "mark", "restore", "restorePurged", "over"}]
    /\ found \in [Jobs -> SUBSET Orders]
    /\ cancelled \subseteq Jobs
    /\ chapter \in {"open", "closing", "closed"}

Init ==
    /\ surface = [p \in Pages |-> None]
    /\ analysis = [p \in Pages |-> {}]
    /\ complete = {}
    /\ unit = [position \in Pages \X Orders |-> NoUnit]
    /\ at = [j \in Jobs |-> "new"]
    /\ found = [j \in Jobs |-> {}]
    /\ cancelled = {}
    /\ chapter = "open"

Go(j, to) == at' = [at EXCEPT ![j] = to]

-----------------------------------------------------------------------------
(* ChapterSession *)

Changed(p, revision) == surface[p] \notin {None, revision}

\* Mutant: a new surface keeps the analysis of the old one.
KeptAnalysis(p, revision) == analysis[p]

\* What register_surface leaves of the analysis.
SurvivingAnalysis(p, revision) == IF Changed(p, revision) THEN {} ELSE analysis[p]

RegisterSurface(p, revision) ==
    /\ surface' = [surface EXCEPT ![p] = revision]
    /\ analysis' = [analysis EXCEPT ![p] = SurvivingAnalysis(p, revision)]
    /\ complete' = IF Changed(p, revision) THEN complete \ {p} ELSE complete

\* record_analysis merges the regions by their ids.
RecordAnalysis(p, revision, regions, last) ==
    /\ surface' = [surface EXCEPT ![p] = revision]
    /\ analysis' = [analysis EXCEPT ![p] =
            SurvivingAnalysis(p, revision) \cup ({revision} \X regions)]
    /\ complete' = IF last THEN complete \cup {p}
                   ELSE IF Changed(p, revision) THEN complete \ {p} ELSE complete

-----------------------------------------------------------------------------
(* ChapterContextStore *)

Purged(p) ==
    [position \in Pages \X Orders |-> IF position[1] = p THEN NoUnit ELSE unit[position]]

\* Mutant: a registration always starts without a translation.
AsRegistered(old, new) == new

\* A unit that is registered again keeps its translation, or lack of one.
Kept(old, new) ==
    IF old.source = new.source THEN old ELSE new

\* units after register of the regions of one page
Registered(units, p, revision, regions, translation) ==
    [position \in Pages \X Orders |->
        IF position[1] = p /\ position[2] \in regions
        THEN Kept(units[position], [source |-> revision, translation |-> translation])
        ELSE units[position]]

\* Mutant: the position alone identifies the unit.
AtPosition(u, revision) == u # NoUnit

\* publish finds the unit by its position and its id, which names the revision.
SameItem(u, revision) == u.source = revision

-----------------------------------------------------------------------------
(* An image job: run_image_job, ImagePipeline::run *)

\* The worker of a job cancelled before it began.
Skip(j) ==
    /\ at[j] = "new" /\ j \in cancelled
    /\ Go(j, "over")
    /\ UNCHANGED <<session, unit, found, cancelled, chapter>>

\* A failure, or a cancellation boundary that finds the flag.
Abandon(j) ==
    /\ at[j] \in {"new", "boundary", "analysing"}
    /\ Go(j, "mark")
    /\ UNCHANGED <<session, unit, found, cancelled, chapter>>

Register(j) ==
    LET p == PageOf[j] IN
    /\ at[j] = "new" /\ j \notin Replays
    /\ RegisterSurface(p, RevisionOf[j])
    /\ Go(j, IF Changed(p, RevisionOf[j]) THEN "purge" ELSE "boundary")
    /\ UNCHANGED <<unit, found, cancelled, chapter>>

Purge(j) ==
    /\ at[j] = "purge"
    /\ unit' = Purged(PageOf[j])
    /\ Go(j, "boundary")
    /\ UNCHANGED <<session, found, cancelled, chapter>>

\* cancellation_boundary before the models run
Boundary(j) ==
    /\ at[j] = "boundary" /\ j \notin cancelled
    /\ Go(j, "analysing")
    /\ UNCHANGED <<session, unit, found, cancelled, chapter>>

\* record_page_analysis under the lock of the sessions: regions found so far,
\* and all of them the last time.
Record(j, regions, last) ==
    LET p == PageOf[j] IN
    /\ at[j] = "analysing"
    /\ found[j] \subseteq regions
    /\ last => regions = RegionsOf[RevisionOf[j]]
    /\ IF Changed(p, RevisionOf[j])
       THEN Go(j, "mark") /\ UNCHANGED <<session, found>>
       ELSE /\ RecordAnalysis(p, RevisionOf[j], regions, last)
            /\ found' = [found EXCEPT ![j] = regions]
            /\ Go(j, IF last THEN "registerLast" ELSE "register")
    /\ UNCHANGED <<unit, cancelled, chapter>>

\* record_page_analysis under the lock of the contexts
RegisterUnits(j) ==
    /\ at[j] \in {"register", "registerLast"}
    /\ unit' = Registered(unit, PageOf[j], RevisionOf[j], found[j], None)
    /\ Go(j, IF at[j] = "register" THEN "boundary" ELSE "over")
    /\ UNCHANGED <<session, found, cancelled, chapter>>

\* remember_terminal_context
Publish(j, order) ==
    LET position == <<PageOf[j], order>> IN
    /\ at[j] = "analysing"
    /\ order \in found[j]
    /\ SameItem(unit[position], RevisionOf[j])
    /\ unit' = [unit EXCEPT ![position].translation = RevisionOf[j]]
    /\ UNCHANGED <<session, at, found, cancelled, chapter>>

\* Mutant: a failed page is left open.
LeaveOpen(j) == UNCHANGED session

\* mark_page_terminal records an empty complete analysis and registers no unit.
Seal(j) ==
    IF Changed(PageOf[j], RevisionOf[j]) THEN UNCHANGED session
    ELSE RecordAnalysis(PageOf[j], RevisionOf[j], {}, TRUE)

MarkTerminal(j) ==
    /\ at[j] = "mark"
    /\ Seal(j)
    /\ Go(j, "over")
    /\ UNCHANGED <<unit, found, cancelled, chapter>>

\* restore_cached_context
RestoreSession(j) ==
    LET p == PageOf[j] IN
    /\ at[j] = "new" /\ j \in Replays
    /\ RecordAnalysis(p, RevisionOf[j], RegionsOf[RevisionOf[j]], TRUE)
    /\ Go(j, IF Changed(p, RevisionOf[j]) THEN "restorePurged" ELSE "restore")
    /\ UNCHANGED <<unit, found, cancelled, chapter>>

RestoreUnits(j) ==
    LET p == PageOf[j]
        units == IF at[j] = "restorePurged" THEN Purged(p) ELSE unit
    IN  /\ at[j] \in {"restore", "restorePurged"}
        /\ unit' = Registered(units, p, RevisionOf[j], RegionsOf[RevisionOf[j]], RevisionOf[j])
        /\ Go(j, "over")
        /\ UNCHANGED <<session, found, cancelled, chapter>>

-----------------------------------------------------------------------------
(* The browser *)

\* DELETE of the job sets its flag and does not wait for the worker.
Cancel(j) ==
    /\ at[j] # "over" /\ j \notin cancelled
    /\ cancelled' = cancelled \cup {j}
    /\ UNCHANGED <<session, unit, at, found, chapter>>

\* close_chapter: the browser sends it once every job is terminal or cancelled.
CloseSession ==
    /\ chapter = "open"
    /\ \A j \in Jobs : at[j] = "over" \/ j \in cancelled
    /\ surface' = [p \in Pages |-> None]
    /\ analysis' = [p \in Pages |-> {}]
    /\ complete' = {}
    /\ chapter' = "closing"
    /\ UNCHANGED <<unit, at, found, cancelled>>

CloseContext ==
    /\ chapter = "closing"
    /\ unit' = [position \in Pages \X Orders |-> NoUnit]
    /\ chapter' = "closed"
    /\ UNCHANGED <<session, at, found, cancelled>>

Next ==
    \/ \E j \in Jobs :
        \/ Skip(j) \/ Abandon(j) \/ Register(j) \/ Purge(j) \/ Boundary(j)
        \/ \E regions \in SUBSET RegionsOf[RevisionOf[j]], last \in BOOLEAN :
                Record(j, regions, last)
        \/ RegisterUnits(j)
        \/ \E order \in Orders : Publish(j, order)
        \/ MarkTerminal(j) \/ RestoreSession(j) \/ RestoreUnits(j) \/ Cancel(j)
    \/ CloseSession \/ CloseContext

Spec == Init /\ [][Next]_vars

-----------------------------------------------------------------------------
(* Properties *)

\* However jobs of old and new revisions interleave, an analysis only holds
\* regions of the revision the session now has for the page.
SessionCoherent ==
    \A p \in Pages : \A region \in analysis[p] : region[1] = surface[p]

\* A page whose jobs have all ended, by whatever path, is complete, so that no
\* page waits for it (pipeline_adapter.rs:1757).
PagesSealed ==
    (\A j \in Jobs : at[j] = "over") => \A p \in Pages : surface[p] # None => p \in complete

\* A translation is only ever attached to the source text it translates.
TranslationsBelong ==
    \A position \in Pages \X Orders :
        unit[position].translation \in {None, unit[position].source}

\* The frontiers of a page register its regions again and again: none of that
\* loses a translation already published for the same source.
KeepsTranslations ==
    \A position \in Pages \X Orders :
        LET u == unit[position] IN
        u.translation # None => unit'[position] = u \/ unit'[position].source # u.source
TranslationsKept == [][KeepsTranslations]_vars

\* Does not hold (README): once the jobs are over, the context holds no text of
\* a page source that has been replaced.  chapter_session.rs:3 says that
\* completion order cannot change the meaning of a later page.
ContextFollowsSurfaces ==
    chapter = "open" /\ (\A j \in Jobs : at[j] = "over") =>
        \A position \in Pages \X Orders :
            unit[position].source \in {None, surface[position[1]]}

\* Checked as a violation.  server.rs:2612 says that the browser closes the
\* chapter so that dialogue context cannot accumulate across tabs.
ClosedChapterHoldsNothing ==
    chapter = "closed" /\ (\A j \in Jobs : at[j] = "over") =>
        \A position \in Pages \X Orders : unit[position] = NoUnit

=============================================================================
