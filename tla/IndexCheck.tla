----------------------------- MODULE IndexCheck -----------------------------
(***************************************************************************)
(* The integrity check of project memory (durable_index_check, and         *)
(* milestone_check with one root): from some INDEX files it follows the    *)
(* links to further INDEX files, and reports INDEX files it cannot read    *)
(* and links that miss their target.  It takes no lock: commands and       *)
(* editors change the files between two INDEX files it reads.              *)
(***************************************************************************)
EXTENDS DurableWrites

CONSTANT Unreadable   \* contents that are oversized or no valid document

ASSUME UnreadableAssumption == Unreadable \subseteq Content
ASSUME IndexAssumption == IsFiniteSet(Index)

VARIABLE check   \* the check in progress or the last one; None when nobody
                 \* checks

\* `changed', a history, are the paths that changed since the check started.
Idle == [roots |-> {}, pending |-> <<>>, checked |-> <<>>, errors |-> {},
         changed |-> {}]

-----------------------------------------------------------------------------

\* Mutant: the links of an INDEX file with a broken one are not followed.
FollowedIfValid(path) ==
  IF disk[path] \in Unreadable \/ \E t \in Links[disk[path]] : disk[t] = Absent
    THEN {}
    ELSE {target \in Links[disk[path]] \cap Index : disk[target] # Absent}

\* The INDEX files an INDEX file leads on to: not from one that cannot be read,
\* but from one with broken links too.
Followed(path) ==
  IF disk[path] \in Unreadable THEN {}
    ELSE {target \in Links[disk[path]] \cap Index : disk[target] # Absent}

\* What is wrong with an INDEX file, as the links at fault; that it cannot be
\* read counts as a link to itself.
Wrong(path) ==
  IF disk[path] \in Unreadable THEN {<<path, path>>}
    ELSE {<<path, target>> : target \in {t \in Links[disk[path]] : disk[t] = Absent}}

StartCheck ==
  /\ check # None
  /\ check.pending = <<>>
  /\ \E roots \in (SUBSET Index) \ {{}} :
       check' = [Idle EXCEPT !.roots = roots, !.pending = SetToSeq(roots)]
  /\ UNCHANGED vars

\* pending.pop()
Popped == Last(check.pending)

VisitMissing ==
  /\ check # None
  /\ check.pending # <<>>
  /\ disk[Popped] = Absent
  /\ check' = [check EXCEPT !.pending = Front(@),
                            !.errors = @ \cup {<<Popped, Popped>>}]
  /\ UNCHANGED vars

VisitAgain ==
  /\ check # None
  /\ check.pending # <<>>
  /\ disk[Popped] # Absent
  /\ Popped \in Range(check.checked)
  /\ check' = [check EXCEPT !.pending = Front(@)]
  /\ UNCHANGED vars

Visit ==
  /\ check # None
  /\ check.pending # <<>>
  /\ disk[Popped] # Absent
  /\ Popped \notin Range(check.checked)
  /\ check' = [check EXCEPT !.checked = Append(@, Popped),
                            !.errors = @ \cup Wrong(Popped),
                            !.pending = Front(@) \o SetToSeq(Followed(Popped))]
  /\ UNCHANGED vars

\* The files change under a check, or after it; what it found is then of
\* another tree.
Follow ==
  check' = IF check = None \/ disk' = disk THEN check
           ELSE IF check.pending = <<>> THEN Idle
           ELSE [check EXCEPT !.changed = @ \cup {p \in Path : disk'[p] # disk[p]}]

CheckedNext ==
  \/ StartCheck
  \/ VisitMissing \/ VisitAgain \/ Visit
  \/ Next /\ Follow

CheckInit == Init /\ check \in {Idle, None}

CheckSpec == CheckInit /\ [][CheckedNext]_<<vars, check>>

-----------------------------------------------------------------------------

Leads(path, target) ==
  /\ disk[path] \notin Unreadable \cup {Absent}
  /\ disk[target] # Absent
  /\ target \in Links[disk[path]]

\* The INDEX files that can be reached from the roots over links of `through':
\* every set that holds the roots and is closed under those links holds them.
Reached(roots, through) ==
  {path \in Index :
     /\ disk[path] # Absent
     /\ \A S \in SUBSET Index :
          LET closed == \A p \in S \cap through, target \in Index :
                          Leads(p, target) => target \in S
          IN  roots \subseteq S /\ closed => path \in S}

\* However INDEX files link each other, in cycles, to themselves, or several
\* times to one file, a check reads each of them at most once.  It misses
\* none that unchanged links of unchanged files lead to, whatever else changes
\* meanwhile; and while nothing changes it reads just those that are reached,
\* and reports exactly what is wrong with them.
CheckIsExact ==
  check # None /\ check.pending = <<>> =>
    LET checked == Range(check.checked)
        reached == Reached(check.roots, Path \ check.changed)
    IN  /\ IsInjective(check.checked)
        /\ reached \ check.changed \subseteq checked
        /\ check.changed = {} =>
             /\ checked = reached
             /\ check.errors =
                  (UNION {Wrong(path) : path \in reached})
                    \cup {<<path, path>> : path \in {r \in check.roots : disk[r] = Absent}}
=============================================================================
