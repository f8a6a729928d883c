--------------------------- MODULE EvidencePages ---------------------------
(***************************************************************************)
(* The open evidence of a task read page by page (evidence_summary, and    *)
(* the page of the full task-status view, _continuity_status) while        *)
(* commands change the ledger between two pages.                           *)
(*                                                                         *)
(* A page is one consistent read: the ledger file is replaced as a whole.  *)
(* Only the offset goes from one page to the next.  The full view lists    *)
(* the latest judgments after the open evidence, which moves none of it.   *)
(***************************************************************************)
EXTENDS TaskLedger

VARIABLE pass   \* the pass over the pages in progress, or the last one; None
                \* when nobody reads them

Done == None    \* next_offset once everything is listed

-----------------------------------------------------------------------------

\* An entry of the pages is named by the list it is in and its place there: a
\* pending edge by its observation and its requirement, the one of an observation
\* without requirements by its observation alone, an unresolved judgment by itself.
PendingEntries(s) ==
  UNION {{<<1, i, r>> : r \in {ref \in s.observations[i].requirement_refs :
                                 ~Incorporated(s, ref, s.observations[i].id)}} :
           i \in DOMAIN s.observations}

UnscopedEntries(s) ==
  {<<2, i, None>> : i \in {k \in DOMAIN s.observations :
                             /\ s.observations[k].requirement_refs = {}
                             /\ ~Cited(s, s.observations[k].id)}}

UnresolvedEntries(s) == {<<3, i, None>> : i \in Unresolved(s)}

Open(s) == PendingEntries(s) \cup UnscopedEntries(s) \cup UnresolvedEntries(s)

\* Where an observation lists a requirement: its list is a set here, and some
\* fixed order of the set stands for the list's own.
Place(o, ref) ==
  LET refs == SetToSeq(o.requirement_refs)
  IN  CHOOSE k \in DOMAIN refs : refs[k] = ref

\* The order of the entries: the three lists one after the other, each in ledger
\* order, the requirements of an observation as it lists them.
Precedes(s, e, f) ==
  \/ e[1] < f[1]
  \/ e[1] = f[1] /\ e[2] < f[2]
  \/ /\ e[1] = 1 /\ f[1] = 1 /\ e[2] = f[2]
     /\ Place(s.observations[e[2]], e[3]) < Place(s.observations[e[2]], f[3])

Position(s, e) == Cardinality({f \in Open(s) : ~Precedes(s, e, f)})

Total(s) == Cardinality(Open(s))

\* How many entries a page holds: as many as fit its byte budget, which the
\* first one of a page always does.
PageSizes(s, offset) ==
  IF Total(s) <= offset THEN {0} ELSE 1 .. Total(s) - offset

\* Mutant: next_offset is given when nothing is left, too.
NextOffsetEndless(s, offset, size) ==
  IF offset + size > Total(s) THEN Done ELSE offset + size

\* Mutant: next_offset names the entry after the first one left out.
NextOffsetSkipping(s, offset, size) ==
  IF offset + size >= Total(s) THEN Done ELSE offset + size + 1

NextOffset(s, offset, size) ==
  IF offset + size >= Total(s) THEN Done ELSE offset + size

Page(s, offset, size) ==
  {e \in Open(s) : Position(s, e) \in offset + 1 .. offset + size}

-----------------------------------------------------------------------------

Unread == [offset |-> Done, shown |-> {}, kept |-> {}, answered |-> {}]

PagesInit ==
  /\ Init
  /\ pass \in {Unread, None}

\* The reader starts a pass with the first page, whatever is open then ...
FirstPage ==
  /\ pass # None
  /\ pass.offset = Done
  /\ \E size \in PageSizes(ledger, 0) :
       pass' = [offset |-> NextOffset(ledger, 0, size),
                shown |-> Page(ledger, 0, size),
                kept |-> Open(ledger), answered |-> {}]
  /\ UNCHANGED ledger

\* ... and asks for the next one with the next_offset of the one before.
NextPage ==
  /\ pass # None
  /\ pass.offset # Done
  /\ \E size \in PageSizes(ledger, pass.offset) :
       pass' = [pass EXCEPT !.offset = NextOffset(ledger, pass.offset, size),
                            !.shown = @ \cup Page(ledger, pass.offset, size)]
  /\ UNCHANGED ledger

\* A command changes the ledger, and the list a pass is in the middle of.
\* `kept' are the entries open since the pass started, `answered' the ones
\* that were answered when they lay before the offset.
Follow ==
  pass' =
    IF pass = None \/ pass.offset = Done THEN pass
    ELSE [pass EXCEPT
            !.kept = @ \cap Open(ledger'),
            !.answered = @ \cup (Page(ledger, 0, pass.offset) \ Open(ledger'))]

Changes(c) == Do(c) /\ Follow

PagesNext ==
  \/ FirstPage
  \/ NextPage
  \/ \E c \in Commands : Changes(c)

pageVars == <<ledger, pass>>

\* The reader goes on to the next page, and starts over after the last one:
\* open evidence is re-presented before each of the Controller's judgments.
Reading == WF_pageVars(FirstPage \/ NextPage)

PagesSpec == PagesInit /\ [][PagesNext]_pageVars /\ Reading

-----------------------------------------------------------------------------

\* "next_offset pages the rest so open evidence is never dropped from
\* re-presentation" (evidence_summary): a complete pass shows whatever was
\* open throughout it, except for at most as many entries as were answered
\* meanwhile on the pages already read.  Observations and judgments that are
\* added meanwhile make it repeat entries and never skip one.
NothingOpenIsSkipped ==
  pass # None /\ pass.offset = Done =>
    Cardinality(pass.kept \ pass.shown) <= Cardinality(pass.answered)

\* Every pass ends, and what one skipped the next one shows: again and again
\* a pass has shown all that is open.
OpenIsPresented ==
  []<>(pass # None => pass.offset = Done /\ Open(ledger) \subseteq pass.shown)
=============================================================================
