------------------------ MODULE ChapterContextProofs ------------------------
(* Theorems about ChapterContext, for any pages, revisions and jobs.         *)
EXTENDS ChapterContext, TLAPS

\* Job j will still complete page p, or find that another job has taken it.
Responsible(j, p) ==
    /\ PageOf[j] = p
    /\ RevisionOf[j] = surface[p]
    /\ at[j] \in {"purge", "boundary", "analysing", "register", "mark"}

\* An incomplete page has a job of its present revision that is not over.  The
\* job that set the surface is one, until it completes the page itself.
IncompleteHasJob ==
    \A p \in Pages :
        surface[p] # None /\ p \notin complete => \E j \in Jobs : Responsible(j, p)

\* The inductive invariant.
IInv ==
    /\ TypeOK
    /\ SessionCoherent
    /\ TranslationsBelong
    /\ IncompleteHasJob

-----------------------------------------------------------------------------
(* The operators of the two stores *)

\* What register_surface leaves of an analysis belongs to the new surface.
LEMMA SurvivorsBelong ==
    ASSUME TypeOK, SessionCoherent, NEW p \in Pages, NEW revision \in Revisions
    PROVE  /\ SurvivingAnalysis(p, revision) \subseteq Revisions \X Orders
           /\ \A region \in SurvivingAnalysis(p, revision) : region[1] = revision
<1>1. CASE Changed(p, revision)
  BY <1>1 DEF SurvivingAnalysis
<1>2. CASE ~Changed(p, revision)
  <2>1. SurvivingAnalysis(p, revision) = analysis[p] /\ surface[p] \in {None, revision}
    BY <1>2 DEF SurvivingAnalysis, Changed
  <2>2. analysis[p] \subseteq Revisions \X Orders
    BY DEF TypeOK
  <2>3. \A region \in analysis[p] : region[1] = surface[p] /\ region[1] # None
    BY <2>2, JobsAssumption DEF SessionCoherent
  <2> QED BY <2>1, <2>2, <2>3
<1> QED BY <1>1, <1>2

\* A registration yields units, each with a translation of its own source.
LEMMA RegisteredBelong ==
    ASSUME NEW units \in [Pages \X Orders -> Unit], NEW p, NEW revision \in Revisions,
           NEW regions, NEW translation \in {None, revision},
           \A position \in Pages \X Orders :
                units[position].translation \in {None, units[position].source}
    PROVE  LET after == Registered(units, p, revision, regions, translation)
           IN  /\ after \in [Pages \X Orders -> Unit]
               /\ \A position \in Pages \X Orders :
                    after[position].translation \in {None, after[position].source}
<1> DEFINE new == [source |-> revision, translation |-> translation]
           after == Registered(units, p, revision, regions, translation)
<1>1. new \in Unit /\ new.source = revision /\ new.translation \in {None, new.source}
  BY DEF Unit
<1>2. \A position \in Pages \X Orders : after[position] \in {units[position], new}
  BY DEF Registered, Kept
<1>3. after = [position \in Pages \X Orders |-> after[position]]
  BY DEF Registered
<1> HIDE DEF new, after
<1>4. \A position \in Pages \X Orders : after[position] \in Unit
  BY <1>1, <1>2
<1>5. after \in [Pages \X Orders -> Unit]
  BY <1>3, <1>4
<1>6. \A position \in Pages \X Orders :
        after[position].translation \in {None, after[position].source}
  BY <1>1, <1>2
<1> QED BY <1>5, <1>6 DEF after

\* A purge leaves units, empty or as they were.
LEMMA PurgedBelong ==
    ASSUME TypeOK, TranslationsBelong, NEW p
    PROVE  /\ Purged(p) \in [Pages \X Orders -> Unit]
           /\ \A position \in Pages \X Orders :
                /\ Purged(p)[position] \in {NoUnit, unit[position]}
                /\ Purged(p)[position].translation \in {None, Purged(p)[position].source}
BY DEF Purged, TypeOK, TranslationsBelong, Unit, NoUnit

\* Recording an analysis keeps the session coherent.
LEMMA RecordCoherent ==
    ASSUME TypeOK, SessionCoherent, NEW p \in Pages, NEW revision \in Revisions,
           NEW regions \in SUBSET Orders, NEW last \in BOOLEAN,
           RecordAnalysis(p, revision, regions, last)
    PROVE  /\ surface' \in [Pages -> Revisions \cup {None}]
           /\ analysis' \in [Pages -> SUBSET (Revisions \X Orders)]
           /\ complete' \subseteq Pages
           /\ SessionCoherent'
<1> DEFINE merged == SurvivingAnalysis(p, revision) \cup ({revision} \X regions)
<1>1. merged \subseteq Revisions \X Orders /\ \A region \in merged : region[1] = revision
  BY SurvivorsBelong
<1>2. /\ surface' = [surface EXCEPT ![p] = revision]
      /\ analysis' = [analysis EXCEPT ![p] = merged]
      /\ complete' \subseteq complete \cup {p}
  BY DEF RecordAnalysis
<1> HIDE DEF merged
<1>3. SessionCoherent'
  BY <1>1, <1>2 DEF TypeOK, SessionCoherent
<1> QED BY <1>1, <1>2, <1>3 DEF TypeOK

-----------------------------------------------------------------------------
(* The inductive invariant *)

\* Nothing is registered at first.
LEMMA InitIInv == Init => IInv
<1> SUFFICES ASSUME Init PROVE IInv
  OBVIOUS
<1>1. TypeOK
  BY DEF Init, TypeOK, Unit, NoUnit
<1>2. SessionCoherent /\ TranslationsBelong /\ IncompleteHasJob
  BY DEF Init, SessionCoherent, TranslationsBelong, IncompleteHasJob, NoUnit
<1> QED BY <1>1, <1>2 DEF IInv

\* A page keeps a responsible job when neither surfaces nor pages change and
\* the moving job goes from one responsible place to another, or was not one.
LEMMA MoveKeepsResponsible ==
    ASSUME TypeOK, IncompleteHasJob, UNCHANGED session, NEW j \in Jobs, NEW to,
           at' = [at EXCEPT ![j] = to],
           \/ to \in {"purge", "boundary", "analysing", "register", "mark"}
           \/ at[j] \notin {"purge", "boundary", "analysing", "register", "mark"}
    PROVE  IncompleteHasJob'
BY DEF TypeOK, IncompleteHasJob, Responsible, session

\* Nor does it lose one when a job sets the surface of its page to its own
\* revision and either becomes responsible or completes the page.
LEMMA SetKeepsResponsible ==
    ASSUME TypeOK, IncompleteHasJob, NEW j \in Jobs, NEW to,
           surface' = [surface EXCEPT ![PageOf[j]] = RevisionOf[j]],
           at' = [at EXCEPT ![j] = to],
           complete \ {PageOf[j]} \subseteq complete',
           \/ PageOf[j] \in complete'
           \/ to \in {"purge", "boundary", "analysing", "register", "mark"}
    PROVE  IncompleteHasJob'
<1> DEFINE p == PageOf[j]
<1>1. p \in Pages /\ RevisionOf[j] \in Revisions
  BY JobsAssumption
<1> SUFFICES ASSUME NEW q \in Pages, surface'[q] # None, q \notin complete'
             PROVE  \E k \in Jobs : Responsible(k, q)'
  BY DEF IncompleteHasJob
<1>2. CASE q = p
  <2>1. Responsible(j, q)'
    BY <1>1, <1>2 DEF TypeOK, Responsible
  <2> QED BY <2>1
<1>3. CASE q # p
  <2>1. surface[q] # None /\ q \notin complete /\ surface'[q] = surface[q]
    BY <1>1, <1>3 DEF TypeOK
  <2>2. PICK k \in Jobs : Responsible(k, q)
    BY <2>1 DEF IncompleteHasJob
  <2>3. Responsible(k, q)'
    BY <1>3, <2>1, <2>2 DEF TypeOK, Responsible
  <2> QED BY <2>3
<1> QED BY <1>2, <1>3

\* Every step of a job, of the browser's DELETE and of close_chapter.
LEMMA StepIInv == IInv /\ [Next]_vars => IInv'
<1> SUFFICES ASSUME IInv, [Next]_vars PROVE IInv'
  OBVIOUS
<1> USE DEF IInv, Go
<1> DEFINE Typed == /\ surface' \in [Pages -> Revisions \cup {None}]
                    /\ analysis' \in [Pages -> SUBSET (Revisions \X Orders)]
                    /\ complete' \subseteq Pages
<1>1. ASSUME NEW j \in Jobs,
             Skip(j) \/ Abandon(j) \/ Boundary(j) \/ Cancel(j)
      PROVE  IInv'
  <2>1. TypeOK'
    BY <1>1 DEF Skip, Abandon, Boundary, Cancel, TypeOK, session
  <2>2. SessionCoherent' /\ TranslationsBelong'
    BY <1>1 DEF Skip, Abandon, Boundary, Cancel, session, SessionCoherent, TranslationsBelong
  <2>3. IncompleteHasJob'
    <3>1. CASE Cancel(j)
      BY <3>1 DEF Cancel, session, IncompleteHasJob, Responsible
    <3>2. CASE Skip(j)
      BY <3>2, MoveKeepsResponsible DEF Skip
    <3>3. CASE Abandon(j)
      BY <3>3, MoveKeepsResponsible DEF Abandon
    <3>4. CASE Boundary(j)
      BY <3>4, MoveKeepsResponsible DEF Boundary
    <3> QED BY <1>1, <3>1, <3>2, <3>3, <3>4
  <2> QED BY <2>1, <2>2, <2>3
<1>2. ASSUME NEW j \in Jobs, Register(j) PROVE IInv'
  <2> DEFINE p == PageOf[j]
             revision == RevisionOf[j]
             to == IF Changed(p, revision) THEN "purge" ELSE "boundary"
  <2>1. p \in Pages /\ revision \in Revisions
    BY JobsAssumption
  <2>2. /\ surface' = [surface EXCEPT ![p] = revision]
        /\ analysis' = [analysis EXCEPT ![p] = SurvivingAnalysis(p, revision)]
        /\ complete' = IF Changed(p, revision) THEN complete \ {p} ELSE complete
        /\ at' = [at EXCEPT ![j] = to]
        /\ UNCHANGED <<unit, found, cancelled, chapter>>
    BY <1>2 DEF Register, RegisterSurface
  <2>3. to \in {"purge", "boundary"}
    OBVIOUS
  <2>4. /\ SurvivingAnalysis(p, revision) \subseteq Revisions \X Orders
        /\ \A region \in SurvivingAnalysis(p, revision) : region[1] = revision
    BY <2>1, SurvivorsBelong
  <2>5. complete \ {p} \subseteq complete' /\ complete' \subseteq complete
    BY <2>2
  <2>6. IncompleteHasJob'
    BY <2>2, <2>3, <2>5, SetKeepsResponsible
  <2> HIDE DEF p, revision, to
  <2>7. TypeOK'
    BY <2>1, <2>2, <2>3, <2>4, <2>5 DEF TypeOK
  <2>8. SessionCoherent'
    BY <2>1, <2>2, <2>4 DEF TypeOK, SessionCoherent
  <2>9. TranslationsBelong'
    BY <2>2 DEF TranslationsBelong
  <2> QED BY <2>6, <2>7, <2>8, <2>9
<1>3. ASSUME NEW j \in Jobs, Purge(j) PROVE IInv'
  <2>1. TypeOK' /\ SessionCoherent' /\ TranslationsBelong'
    BY <1>3, PurgedBelong DEF Purge, session, TypeOK, SessionCoherent, TranslationsBelong
  <2>2. IncompleteHasJob'
    BY <1>3, MoveKeepsResponsible DEF Purge
  <2> QED BY <2>1, <2>2
<1>4. ASSUME NEW j \in Jobs, NEW regions \in SUBSET RegionsOf[RevisionOf[j]],
             NEW last \in BOOLEAN, Record(j, regions, last)
      PROVE  IInv'
  <2> DEFINE p == PageOf[j]
             revision == RevisionOf[j]
             to == IF last THEN "registerLast" ELSE "register"
  <2>1. p \in Pages /\ revision \in Revisions /\ regions \in SUBSET Orders
    BY JobsAssumption
  <2>2. at[j] = "analysing" /\ UNCHANGED <<unit, cancelled, chapter>>
    BY <1>4 DEF Record
  <2>3. CASE Changed(p, revision)
    <3>1. at' = [at EXCEPT ![j] = "mark"] /\ UNCHANGED <<session, found>>
      BY <1>4, <2>3 DEF Record
    <3>2. TypeOK' /\ SessionCoherent' /\ TranslationsBelong'
      BY <2>2, <3>1 DEF session, TypeOK, SessionCoherent, TranslationsBelong
    <3>3. IncompleteHasJob'
      BY <3>1, MoveKeepsResponsible
    <3> QED BY <3>2, <3>3
  <2>4. CASE ~Changed(p, revision)
    <3>1. /\ RecordAnalysis(p, revision, regions, last)
          /\ found' = [found EXCEPT ![j] = regions]
          /\ at' = [at EXCEPT ![j] = to]
      BY <1>4, <2>4 DEF Record
    <3>2. Typed /\ SessionCoherent'
      BY <2>1, <3>1, RecordCoherent
    <3>3. /\ surface' = [surface EXCEPT ![p] = revision]
          /\ complete \ {p} \subseteq complete'
          /\ p \in complete' \/ to = "register"
      BY <3>1 DEF RecordAnalysis
    <3>4. IncompleteHasJob'
      BY <3>1, <3>3, SetKeepsResponsible
    <3>5. TypeOK' /\ TranslationsBelong'
      BY <2>1, <2>2, <3>1, <3>2 DEF TypeOK, TranslationsBelong
    <3> QED BY <3>2, <3>4, <3>5
  <2> QED BY <2>3, <2>4
<1>5. ASSUME NEW j \in Jobs, RegisterUnits(j) PROVE IInv'
  <2>1. RevisionOf[j] \in Revisions
    BY JobsAssumption
  <2>2. unit' \in [Pages \X Orders -> Unit] /\ TranslationsBelong'
    BY <1>5, <2>1, RegisteredBelong DEF RegisterUnits, TypeOK, TranslationsBelong
  <2>3. TypeOK' /\ SessionCoherent'
    BY <1>5, <2>2 DEF RegisterUnits, session, TypeOK, SessionCoherent
  <2>4. IncompleteHasJob'
    BY <1>5, MoveKeepsResponsible DEF RegisterUnits
  <2> QED BY <2>2, <2>3, <2>4
<1>6. ASSUME NEW j \in Jobs, NEW order \in Orders, Publish(j, order) PROVE IInv'
  <2> DEFINE position == <<PageOf[j], order>>
  <2>1. position \in Pages \X Orders /\ RevisionOf[j] \in Revisions
    BY JobsAssumption
  <2>2. /\ unit[position].source = RevisionOf[j]
        /\ unit' = [unit EXCEPT ![position].translation = RevisionOf[j]]
        /\ UNCHANGED <<session, at, found, cancelled, chapter>>
    BY <1>6 DEF Publish, SameItem
  <2> HIDE DEF position
  <2>3. TypeOK' /\ TranslationsBelong'
    BY <2>1, <2>2 DEF session, TypeOK, TranslationsBelong, Unit
  <2>4. SessionCoherent' /\ IncompleteHasJob'
    BY <2>2 DEF session, SessionCoherent, IncompleteHasJob, Responsible
  <2> QED BY <2>3, <2>4
<1>7. ASSUME NEW j \in Jobs, MarkTerminal(j) PROVE IInv'
  <2> DEFINE p == PageOf[j]
             revision == RevisionOf[j]
  <2>1. p \in Pages /\ revision \in Revisions
    BY JobsAssumption
  <2>2. /\ at[j] = "mark" /\ at' = [at EXCEPT ![j] = "over"]
        /\ UNCHANGED <<unit, found, cancelled, chapter>>
    BY <1>7 DEF MarkTerminal
  <2>3. CASE Changed(p, revision)
    <3>1. UNCHANGED session
      BY <1>7, <2>3 DEF MarkTerminal, Seal
    <3>2. TypeOK' /\ SessionCoherent' /\ TranslationsBelong'
      BY <2>2, <3>1 DEF session, TypeOK, SessionCoherent, TranslationsBelong
    <3>3. \A q \in Pages, k \in Jobs : Responsible(k, q) => Responsible(k, q)'
      BY <2>2, <2>3, <3>1 DEF session, TypeOK, Responsible, Changed
    <3>4. IncompleteHasJob'
      BY <3>1, <3>3 DEF session, IncompleteHasJob
    <3> QED BY <3>2, <3>4
  <2>4. CASE ~Changed(p, revision)
    <3>1. RecordAnalysis(p, revision, {}, TRUE)
      BY <1>7, <2>4 DEF MarkTerminal, Seal
    <3>2. Typed /\ SessionCoherent'
      BY <2>1, <3>1, RecordCoherent
    <3>3. surface' = [surface EXCEPT ![p] = revision] /\ complete' = complete \cup {p}
      BY <3>1 DEF RecordAnalysis
    <3>4. IncompleteHasJob'
      BY <2>2, <3>3, SetKeepsResponsible
    <3>5. TypeOK' /\ TranslationsBelong'
      BY <2>2, <3>2 DEF TypeOK, TranslationsBelong
    <3> QED BY <3>2, <3>4, <3>5
  <2> QED BY <2>3, <2>4
<1>8. ASSUME NEW j \in Jobs, RestoreSession(j) PROVE IInv'
  <2> DEFINE p == PageOf[j]
             revision == RevisionOf[j]
             to == IF Changed(p, revision) THEN "restorePurged" ELSE "restore"
  <2>1. p \in Pages /\ revision \in Revisions /\ RegionsOf[revision] \in SUBSET Orders
    BY JobsAssumption
  <2>2. /\ RecordAnalysis(p, revision, RegionsOf[revision], TRUE)
        /\ at' = [at EXCEPT ![j] = to]
        /\ UNCHANGED <<unit, found, cancelled, chapter>>
    BY <1>8 DEF RestoreSession
  <2>3. Typed /\ SessionCoherent'
    BY <2>1, <2>2, RecordCoherent
  <2>4. surface' = [surface EXCEPT ![p] = revision] /\ complete' = complete \cup {p}
    BY <2>2 DEF RecordAnalysis
  <2>5. IncompleteHasJob'
    BY <2>2, <2>4, SetKeepsResponsible
  <2>6. TypeOK' /\ TranslationsBelong'
    BY <2>2, <2>3 DEF TypeOK, TranslationsBelong
  <2> QED BY <2>3, <2>5, <2>6
<1>9. ASSUME NEW j \in Jobs, RestoreUnits(j) PROVE IInv'
  <2> DEFINE before == IF at[j] = "restorePurged" THEN Purged(PageOf[j]) ELSE unit
  <2>1. RevisionOf[j] \in Revisions
    BY JobsAssumption
  <2>2. /\ before \in [Pages \X Orders -> Unit]
        /\ \A position \in Pages \X Orders :
            before[position].translation \in {None, before[position].source}
    BY PurgedBelong DEF TypeOK, TranslationsBelong
  <2>3. /\ unit' = Registered(before, PageOf[j], RevisionOf[j],
                              RegionsOf[RevisionOf[j]], RevisionOf[j])
        /\ at[j] \in {"restore", "restorePurged"}
        /\ at' = [at EXCEPT ![j] = "over"]
        /\ UNCHANGED <<session, found, cancelled, chapter>>
    BY <1>9 DEF RestoreUnits
  <2> HIDE DEF before
  <2>4. unit' \in [Pages \X Orders -> Unit] /\ TranslationsBelong'
    BY <2>1, <2>2, <2>3, RegisteredBelong DEF TranslationsBelong
  <2>5. TypeOK' /\ SessionCoherent'
    BY <2>3, <2>4 DEF session, TypeOK, SessionCoherent
  <2>6. IncompleteHasJob'
    BY <2>3, MoveKeepsResponsible
  <2> QED BY <2>4, <2>5, <2>6
<1>10. CASE CloseSession
  BY <1>10 DEF CloseSession, TypeOK, SessionCoherent, TranslationsBelong, IncompleteHasJob
<1>11. CASE CloseContext
  <2>1. TypeOK' /\ TranslationsBelong'
    BY <1>11 DEF CloseContext, session, TypeOK, TranslationsBelong, Unit, NoUnit
  <2>2. SessionCoherent' /\ IncompleteHasJob'
    BY <1>11 DEF CloseContext, session, SessionCoherent, IncompleteHasJob, Responsible
  <2> QED BY <2>1, <2>2
<1>12. CASE UNCHANGED vars
  BY <1>12 DEF vars, TypeOK, SessionCoherent, TranslationsBelong, IncompleteHasJob, Responsible
<1> QED
  BY <1>1, <1>2, <1>3, <1>4, <1>5, <1>6, <1>7, <1>8, <1>9, <1>10, <1>11, <1>12 DEF Next

\* The invariant holds for ever.
THEOREM Invariance == Spec => []IInv
BY InitIInv, StepIInv, PTL DEF Spec

-----------------------------------------------------------------------------
(* What it implies *)

\* Every variable keeps its type, whatever jobs of however many pages overlap.
THEOREM TypeCorrect == Spec => []TypeOK
<1>1. IInv => TypeOK
  BY DEF IInv
<1> QED BY <1>1, Invariance, PTL

\* The session never mixes the regions of two revisions of one page
\* (ChapterSession::register_surface and record_analysis).
THEOREM Coherent == Spec => []SessionCoherent
<1>1. IInv => SessionCoherent
  BY DEF IInv
<1> QED BY <1>1, Invariance, PTL

\* No path through the image pipeline, its failures and the cache's replay
\* leaves a page open once its jobs are over (HskifyPipeline::run_image).
THEOREM EveryPageSealed == Spec => []PagesSealed
<1>1. IInv => PagesSealed
  BY DEF IInv, PagesSealed, IncompleteHasJob, Responsible
<1> QED BY <1>1, Invariance, PTL

\* A translation never sits on a source text it was not made for
\* (ChapterContextStore::register and publish).
THEOREM OwnTranslations == Spec => []TranslationsBelong
<1>1. IInv => TranslationsBelong
  BY DEF IInv
<1> QED BY <1>1, Invariance, PTL

\* No registration, purge or publication loses or replaces the translation of
\* a source text that stays (ChapterContextStore::register).
THEOREM NoTranslationLost == Spec => TranslationsKept
<1>1. IInv /\ [Next]_vars => [KeepsTranslations]_vars
  <2> SUFFICES ASSUME IInv, Next PROVE KeepsTranslations
    OBVIOUS
  <2> USE DEF IInv
  <2>1. ASSUME UNCHANGED unit PROVE KeepsTranslations
    BY <2>1 DEF KeepsTranslations
  <2>2. \A position \in Pages \X Orders :
            unit[position].translation # None => unit[position].source # None
    BY DEF TranslationsBelong
  <2>3. ASSUME NEW j \in Jobs, Purge(j) PROVE KeepsTranslations
    BY <2>2, <2>3, PurgedBelong DEF Purge, KeepsTranslations, NoUnit
  <2>4. ASSUME NEW j \in Jobs, RegisterUnits(j) PROVE KeepsTranslations
    <3>1. unit' = Registered(unit, PageOf[j], RevisionOf[j], found[j], None)
      BY <2>4 DEF RegisterUnits
    <3>2. \A position \in Pages \X Orders :
            \/ unit'[position] = unit[position]
            \/ unit'[position].source # unit[position].source
      BY <3>1 DEF Registered, Kept
    <3> QED BY <3>2 DEF KeepsTranslations
  <2>5. ASSUME NEW j \in Jobs, NEW order \in Orders, Publish(j, order)
        PROVE  KeepsTranslations
    <3> DEFINE position == <<PageOf[j], order>>
    <3>1. position \in Pages \X Orders
      BY JobsAssumption
    <3>2. /\ unit[position].source = RevisionOf[j]
          /\ unit' = [unit EXCEPT ![position].translation = RevisionOf[j]]
      BY <2>5 DEF Publish, SameItem
    <3> HIDE DEF position
    <3> QED BY <3>1, <3>2 DEF KeepsTranslations, TypeOK, TranslationsBelong, Unit
  <2>6. ASSUME NEW j \in Jobs, RestoreUnits(j) PROVE KeepsTranslations
    <3> DEFINE before == IF at[j] = "restorePurged" THEN Purged(PageOf[j]) ELSE unit
    <3>1. RevisionOf[j] \in Revisions
      BY JobsAssumption
    <3>2. /\ before \in [Pages \X Orders -> Unit]
          /\ \A position \in Pages \X Orders :
              /\ before[position].translation \in {None, before[position].source}
              /\ before[position] \in {NoUnit, unit[position]}
      BY PurgedBelong DEF TypeOK, TranslationsBelong
    <3>3. unit' = Registered(before, PageOf[j], RevisionOf[j],
                             RegionsOf[RevisionOf[j]], RevisionOf[j])
      BY <2>6 DEF RestoreUnits
    <3> HIDE DEF before
    <3>4. SUFFICES ASSUME NEW position \in Pages \X Orders,
                          unit[position].translation # None,
                          unit'[position].source = unit[position].source
                   PROVE  unit'[position] = unit[position]
      BY DEF KeepsTranslations
    <3> DEFINE old == unit[position]
               new == [source |-> RevisionOf[j], translation |-> RevisionOf[j]]
    <3>5. /\ old \in Unit
          /\ old.source # None /\ old.translation = old.source
      BY <2>2, <3>4 DEF TypeOK, TranslationsBelong
    <3>6. \/ unit'[position] = before[position]
          \/ unit'[position] = new
      BY <3>3 DEF Registered, Kept
    <3>7. CASE unit'[position] = before[position]
      BY <3>2, <3>4, <3>5, <3>7 DEF NoUnit
    <3>8. CASE unit'[position] = new
      <4>1. old.source = RevisionOf[j] /\ old.translation = RevisionOf[j]
        BY <3>4, <3>5, <3>8
      <4> QED BY <3>5, <3>8, <4>1 DEF Unit
    <3> QED BY <3>6, <3>7, <3>8
  <2>7. CASE CloseContext
    BY <2>2, <2>7 DEF CloseContext, KeepsTranslations, NoUnit
  <2> QED
    BY <2>1, <2>3, <2>4, <2>5, <2>6, <2>7
    DEF Next, Skip, Abandon, Register, Boundary, Record, MarkTerminal, RestoreSession,
        Cancel, CloseSession
<1> QED BY <1>1, Invariance, PTL DEF Spec, TranslationsKept

=============================================================================
