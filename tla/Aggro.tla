------------------------------- MODULE Aggro -------------------------------
(***************************************************************************)
(* The aggro list of one AI: whom it hates, and how much.  The list is     *)
(* sorted lazily: a change makes it dirty, and the next look at the        *)
(* highest entry, or the next update, sorts it.  Aggro is a small integer; *)
(* what an entry loses in one update depends on the time that has passed   *)
(* and on the entry's own ratio or value, and is any part of it here.      *)
(***************************************************************************)
EXTENDS Integers, SequencesExt

CONSTANTS Ids,      \* the ids of characters
          MaxAggro  \* bound on the aggro of an entry

ASSUME AggroAssumption == Ids \subseteq Nat \ {0} /\ MaxAggro \in Nat \ {0}

VARIABLES entries,  \* _entries, the highest last when the list is sorted
          dirty,    \* _dirty
          reducing  \* _reduceType is not DISABLED: new entries are reduced

aggroVars == <<entries, dirty, reducing>>
Entry == [id : Ids, aggro : 0 .. MaxAggro, reduced : BOOLEAN]

AggroInit == entries = <<>> /\ dirty = FALSE /\ reducing = FALSE

----------------------------------------------------------------------------
(* EntrySorter, sort and cleanupList                                       *)

Less(e, f) == e.aggro < f.aggro \/ (e.aggro = f.aggro /\ e.id < f.id)

Shuffles(s) == {[i \in DOMAIN s |-> s[p[i]]] : p \in Bijection(DOMAIN s, DOMAIN s)}

\* What sort makes of the list s; there is one such list.
Sort(s, changed) ==
  IF changed
  THEN {t \in Shuffles(s) : \A i, j \in DOMAIN t : i < j => Less(t[i], t[j])}
  ELSE {s}

\* The entries in front of the first that has aggro left are erased.
Cleanup(s) == SubSeq(s, 1 + Cardinality({i \in DOMAIN s : \A j \in 1 .. i : s[j].aggro <= 0}), Len(s))

----------------------------------------------------------------------------
(* The operations                                                          *)

\* setReduceByRatio, setReduceByValue, resetReduceValue
SetReduce(on) == reducing' = on /\ UNCHANGED <<entries, dirty>>

\* Fault: an entry that is raised does not make the list dirty.
MarkDirtyNew(id) == dirty' = (dirty \/ \A i \in DOMAIN entries : entries[i].id # id)

MarkDirty(id) == dirty' = TRUE

\* The caller may give the entry it gets back a reduction of its own, as
\* GameMap::addEntity does.
AddAggro(id, amount, reduce) ==
  /\ MarkDirty(id)
  /\ \/ \E i \in DOMAIN entries :
          /\ entries[i].id = id /\ entries[i].aggro + amount <= MaxAggro
          /\ entries' = [entries EXCEPT ![i] =
               [id |-> id, aggro |-> @.aggro + amount, reduced |-> @.reduced \/ reduce]]
     \/ /\ \A i \in DOMAIN entries : entries[i].id # id
        /\ entries' = Append(entries, [id |-> id, aggro |-> amount, reduced |-> reducing \/ reduce])
  /\ UNCHANGED reducing

\* reduceByTime
Reductions(e) == IF e.reduced THEN {[e EXCEPT !.aggro = a] : a \in 0 .. e.aggro} ELSE {e}

UpdateAggro ==
  LET changed == dirty \/ \E i \in DOMAIN entries : entries[i].reduced
  IN  /\ \E s \in [DOMAIN entries -> UNION {Reductions(entries[i]) : i \in DOMAIN entries}] :
           /\ \A i \in DOMAIN entries : s[i] \in Reductions(entries[i])
           /\ \E t \in Sort(s, changed) : entries' = IF changed THEN Cleanup(t) ELSE t
      /\ dirty' = FALSE
      /\ UNCHANGED reducing

\* getHighestEntry: the entry it returns is the last of the sorted list.
Settle == \E s \in Sort(entries, dirty) : entries' = s /\ dirty' = FALSE /\ UNCHANGED reducing

AggroNext ==
  \/ \E on \in BOOLEAN : SetReduce(on)
  \/ \E id \in Ids, amount \in 1 .. MaxAggro, reduce \in BOOLEAN : AddAggro(id, amount, reduce)
  \/ UpdateAggro
  \/ Settle

----------------------------------------------------------------------------
(* Properties                                                              *)

AggroTypeOK == entries \in Seq(Entry) /\ dirty \in BOOLEAN /\ reducing \in BOOLEAN

\* Whenever somebody asks, the list can be sorted, and the entry getHighestEntry
\* answers (AggroMgr.h:185) has more aggro than any other, however the list was
\* changed since the last time it was sorted; nobody is in the list twice.
HighestIsHighest ==
  /\ \A i, j \in DOMAIN entries : entries[i].id = entries[j].id => i = j
  /\ Sort(entries, dirty) # {}
  /\ \A s \in Sort(entries, dirty) : \A i \in DOMAIN entries :
       entries[i] = s[Len(s)] \/ Less(entries[i], s[Len(s)])

\* An entry that has lost all its aggro is gone when the update is over
\* (AggroMgr.h:59), so that HasEnemies counts enemies only.
SpentAreGone == \A i \in DOMAIN entries : entries[i].aggro > 0
============================================================================
