-------------------------- MODULE MCDurableWrites --------------------------
(***************************************************************************)
(* Two callers with a document, the INDEX file that links it and an        *)
(* identity file; and, in a scene of its own, a check of INDEX files that  *)
(* link each other while one caller and an editor change them.             *)
(***************************************************************************)
EXTENDS IndexCheck

CONSTANTS doc, index, nested, identity,
          original, revised, map, back, damaged

MCContent == {original, revised, map, back, damaged}
MCLinks ==
  [c \in MCContent |->
     CASE c = revised -> {doc}
       [] c = map     -> {doc, nested}
       [] c = back    -> {index, nested}
       [] OTHER       -> {}]

\* The files start untouched, with or without the document; and INDEX files
\* that link themselves and each other.
Untouched ==
  {[path \in {doc, index, nested, identity} |->
      CASE path = doc -> c [] path = nested -> Absent [] OTHER -> original] :
     c \in {original, Absent}}
Linked ==
  {[path \in {doc, index, nested, identity} |->
      CASE path = doc -> c [] path = nested -> back
        [] path = index -> map [] OTHER -> original] :
     c \in {original, Absent}}
MCStarts == Untouched \cup Linked

\* A new or rewritten document that its INDEX links, a link to it alone, a
\* deleted document with and without its link, and a new version of the
\* identity.
MCAsked ==
  {[path \in {doc, index} |-> revised],
   [path \in {index} |-> revised],
   [path \in {doc} |-> Absent],
   [path \in {doc, index} |-> IF path = doc THEN Absent ELSE original],
   [path \in {identity} |-> revised]}

MCInit ==
  /\ CheckInit
  /\ (check = None) = (disk \in Untouched)

\* Two callers, and an editor of the files they ask for; or a check, one
\* maintenance of documents, and an editor of the files that link each other.
Scene ==
  IF check = None
    THEN /\ \A path \in Path : disk'[path] \in {original, revised, Absent}
         /\ disk'[nested] = Absent
    ELSE /\ Cardinality({p \in Process : request'[p] # None}) <= 1
         /\ \A p \in Process : request'[p] # None => request'[p].action = "maintain"
         /\ Len(backups') <= 1
         /\ disk'[doc] \in {original, revised, Absent}
         /\ disk'[identity] = original

MCNext == CheckedNext /\ Scene

MCSpec == MCInit /\ [][MCNext]_<<vars, check>>

MCSymmetry == Permutations(Process)
=============================================================================
