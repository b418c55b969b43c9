--------------------------- MODULE SlugRegistry_proofs --------------------------
(***************************************************************************)
(* Usernames, for any number of profiles, names and requests: a name leads *)
(* to one profile, the locks leave nothing to the unique constraints, the  *)
(* cooldown is kept, from outside a rename is one change of a name, and    *)
(* nobody waits in a circle.                                               *)
(***************************************************************************)
EXTENDS SlugRegistry, SequenceTheorems, WellFoundedInduction, TLAPS

-----------------------------------------------------------------------------
(* Redirects.                                                              *)

NoRepeats(s) == \A i, j \in DOMAIN s : s[i] = s[j] => i = j

\* A reclaimed name is gone, and only that one.
LEMMA ReclaimTakesOne ==
    ASSUME NEW s \in Seq(Name), NoRepeats(s), NEW n \in Name
    PROVE  /\ Reclaim(s, n) \in Seq(Name) /\ Elems(Reclaim(s, n)) \subseteq Elems(s) \ {n}
           /\ NoRepeats(Reclaim(s, n))
<1>0. Len(s) \in Nat /\ DOMAIN s = 1 .. Len(s) OBVIOUS
<1>1. CASE n \notin Elems(s) BY <1>1 DEF Reclaim
<1>2. CASE n \in Elems(s)
  <2> DEFINE i == CHOOSE j \in DOMAIN s : s[j] = n
             k == SubSeq(s, 1, i - 1) \o SubSeq(s, i + 1, Len(s))
  <2>1. i \in 1 .. Len(s) /\ s[i] = n BY <1>0, <1>2 DEF Elems
  <2>2. Reclaim(s, n) = k BY <1>2 DEF Reclaim
  <2> HIDE DEF i
  <2> DEFINE s1 == SubSeq(s, 1, i - 1)
             s2 == SubSeq(s, i + 1, Len(s))
  <2>3. /\ s1 \in Seq(Name) /\ Len(s1) = i - 1
        /\ \A j \in 1 .. (i - 1) : s1[j] = s[j]
    <3>1. i - 1 \in Int /\ \A j \in 1 .. (i - 1) : s[j] \in Name BY <1>0, <2>1
    <3>2. /\ s1 \in Seq(Name) /\ Len(s1) = IF 1 <= i - 1 THEN (i - 1) - 1 + 1 ELSE 0
          /\ \A j \in 1 .. (i - 1) - 1 + 1 : s1[j] = s[1 + j - 1]
      BY <3>1, SubSeqProperties
    <3> HIDE DEF s1
    <3> QED BY <1>0, <2>1, <3>2
  <2>4. /\ s2 \in Seq(Name) /\ Len(s2) = Len(s) - i
        /\ \A j \in 1 .. (Len(s) - i) : s2[j] = s[i + j]
    <3>1. i + 1 \in Int /\ Len(s) \in Int /\ \A j \in (i + 1) .. Len(s) : s[j] \in Name BY <1>0, <2>1
    <3>2. /\ s2 \in Seq(Name) /\ Len(s2) = IF i + 1 <= Len(s) THEN Len(s) - (i + 1) + 1 ELSE 0
          /\ \A j \in 1 .. Len(s) - (i + 1) + 1 : s2[j] = s[(i + 1) + j - 1]
      BY <3>1, SubSeqProperties
    <3> HIDE DEF s2
    <3>3. i \in Int /\ Len(s) - (i + 1) + 1 = Len(s) - i /\ i <= Len(s) BY <1>0, <2>1
    <3>4. Len(s2) = Len(s) - i
      <4>1. Len(s2) = IF i + 1 <= Len(s) THEN Len(s) - (i + 1) + 1 ELSE 0 BY <3>2
      <4>2. CASE i + 1 <= Len(s)
        <5>1. Len(s2) = Len(s) - (i + 1) + 1 BY <4>1, <4>2
        <5> QED BY <3>3, <5>1
      <4>3. CASE ~(i + 1 <= Len(s))
        <5>1. Len(s2) = 0 BY <4>1, <4>3
        <5>2. Len(s) - i = 0
          <6>1. \A x, y \in Int : x <= y /\ ~(x + 1 <= y) => y - x = 0 OBVIOUS
          <6>2. Len(s) \in Int /\ i \in Int BY <1>0, <3>3
          <6> QED BY <3>3, <4>3, <6>1, <6>2
        <5> QED BY <5>1, <5>2
      <4> QED BY <4>2, <4>3
    <3>5. \A j \in 1 .. (Len(s) - i) : s2[j] = s[i + j]
      <4> TAKE j \in 1 .. (Len(s) - i)
      <4>1. s2[j] = s[(i + 1) + j - 1] BY <3>2, <3>3
      <4>2. (i + 1) + j - 1 = i + j BY <3>3
      <4> QED BY <4>1, <4>2
    <3> QED BY <3>2, <3>4, <3>5
  <2> HIDE DEF s1, s2
  <2>5. k \in Seq(Name) /\ Len(k) = Len(s) - 1
        /\ \A j \in 1 .. (Len(s) - 1) : k[j] = IF j <= i - 1 THEN s1[j] ELSE s2[j - (i - 1)]
    <3>1. s1 \o s2 = k BY DEF s1, s2
    <3>2. /\ s1 \o s2 \in Seq(Name) /\ Len(s1 \o s2) = Len(s1) + Len(s2)
          /\ \A j \in 1 .. Len(s1) + Len(s2) :
                (s1 \o s2)[j] = IF j <= Len(s1) THEN s1[j] ELSE s2[j - Len(s1)]
      BY <2>3, <2>4, ConcatProperties
    <3> HIDE DEF k
    <3> QED BY <1>0, <2>1, <2>3, <2>4, <3>1, <3>2
  <2> HIDE DEF k
  <2>6. \A j \in 1 .. (Len(s) - 1) : k[j] = IF j < i THEN s[j] ELSE s[j + 1]
    <3> TAKE j \in 1 .. (Len(s) - 1)
    <3>1. CASE j < i BY <1>0, <2>1, <2>3, <2>5, <3>1
    <3>2. CASE ~(j < i)
      <4>1. k[j] = s2[j - (i - 1)] BY <1>0, <2>1, <2>5, <3>2
      <4>2. j - (i - 1) \in 1 .. (Len(s) - i) BY <1>0, <2>1, <3>2
      <4>3. i + (j - (i - 1)) = j + 1 BY <1>0, <2>1
      <4> QED BY <2>4, <3>2, <4>1, <4>2, <4>3
    <3> QED BY <3>1, <3>2
  <2>7. DOMAIN k = 1 .. (Len(s) - 1) BY <2>5
  <2>8. \A j \in DOMAIN k : k[j] \in Elems(s) \ {n}
    BY <1>0, <2>1, <2>6, <2>7 DEF Elems, NoRepeats
  <2>9. NoRepeats(k) BY <1>0, <2>1, <2>6, <2>7 DEF NoRepeats
  <2>10. Elems(k) \subseteq Elems(s) \ {n} BY <2>8 DEF Elems
  <2> QED BY <2>2, <2>5, <2>9, <2>10
<1> QED BY <1>1, <1>2

\* What a rename leaves behind.
LEMMA RetireKeepsNewest ==
    ASSUME NEW m \in Mentor, past[m] \in Seq(Name), NoRepeats(past[m]),
           NEW n \in Name, NEW old \in Name \ Elems(past[m])
    PROVE  /\ Retire(m, n, old) \in Seq(Name) /\ Len(Retire(m, n, old)) <= KeepCount
           /\ Elems(Retire(m, n, old)) \subseteq (Elems(past[m]) \ {n}) \cup {old}
           /\ NoRepeats(Retire(m, n, old))
<1> DEFINE kept == Reclaim(past[m], n)
           all == <<old>> \o kept
           k == IF Len(all) < KeepCount THEN Len(all) ELSE KeepCount
           r == SubSeq(all, 1, k)
<1>1. kept \in Seq(Name) /\ Elems(kept) \subseteq Elems(past[m]) \ {n} /\ NoRepeats(kept)
  BY ReclaimTakesOne
<1>2. Retire(m, n, old) = r BY DEF Retire
<1> HIDE DEF kept
<1>3. Len(kept) \in Nat /\ DOMAIN kept = 1 .. Len(kept) BY <1>1
<1>4. /\ all \in Seq(Name) /\ Len(all) = Len(kept) + 1 /\ all[1] = old
      /\ \A j \in 1 .. Len(kept) : all[j + 1] = kept[j]
  BY <1>1, <1>3
<1>5. \A j \in 1 .. Len(all) : j = 1 \/ (j - 1 \in 1 .. Len(kept) /\ all[j] = kept[j - 1])
  <2> TAKE j \in 1 .. Len(all)
  <2>1. j = 1 \/ j - 1 \in 1 .. Len(kept) BY <1>3, <1>4
  <2> QED BY <1>3, <1>4, <2>1
<1> HIDE DEF all
<1>6. k \in Nat /\ k <= Len(all) /\ k <= KeepCount BY <1>3, <1>4, NamesAssumption
<1> HIDE DEF k
<1>7. r \in Seq(Name) /\ Len(r) = k /\ \A j \in 1 .. k : r[j] = all[j] BY <1>4, <1>6
<1>8. DOMAIN r = 1 .. k BY <1>6, <1>7
<1> HIDE DEF r
<1>9. \A j \in 1 .. k : j \in 1 .. Len(all) BY <1>3, <1>4, <1>6
<1>10. \A j \in 1 .. k : r[j] = old \/ r[j] \in Elems(kept)
  <2> SUFFICES ASSUME NEW j \in 1 .. k PROVE r[j] = old \/ r[j] \in Elems(kept)
    OBVIOUS
  <2>1. r[j] = all[j] /\ (j = 1 \/ (j - 1 \in 1 .. Len(kept) /\ all[j] = kept[j - 1]))
    BY <1>5, <1>7, <1>9
  <2> QED BY <1>3, <1>4, <2>1 DEF Elems
<1>11. old \notin Elems(kept) BY <1>1
<1>12. NoRepeats(r)
  <2> SUFFICES ASSUME NEW i \in 1 .. k, NEW j \in 1 .. k, r[i] = r[j] PROVE i = j
    BY <1>8 DEF NoRepeats
  <2>1. all[i] = all[j] BY <1>7
  <2>2. CASE i = 1 /\ j # 1 BY <1>3, <1>4, <1>5, <1>9, <1>11, <2>1, <2>2 DEF Elems
  <2>3. CASE i # 1 /\ j = 1 BY <1>3, <1>4, <1>5, <1>9, <1>11, <2>1, <2>3 DEF Elems
  <2>4. CASE i # 1 /\ j # 1
    <3>1. /\ i - 1 \in DOMAIN kept /\ all[i] = kept[i - 1]
          /\ j - 1 \in DOMAIN kept /\ all[j] = kept[j - 1]
      BY <1>3, <1>5, <1>9, <2>4
    <3>2. i - 1 = j - 1 BY <1>1, <2>1, <3>1 DEF NoRepeats
    <3> QED BY <1>6, <3>2
  <2> QED BY <2>2, <2>3, <2>4
<1>13. Elems(r) \subseteq Elems(kept) \cup {old} BY <1>8, <1>10 DEF Elems
<1> QED BY <1>1, <1>2, <1>6, <1>7, <1>12, <1>13

-----------------------------------------------------------------------------
(* The inductive invariant.                                                *)

InRename == {"names", "check", "commit"}
InRegistration == {"claim", "taken", "insert"}

\* What an actor holds and knows at each step of its transaction: the row and
\* the names it has locked, and what they keep the others from changing.
RenameOK(a) ==
    LET c == change[a] IN
    /\ c.step \in InRename =>
          /\ rowLock[c.mentor] = a /\ page[c.mentor] = "live"
          /\ current[c.mentor] = c.old /\ c.old # c.name
          /\ c.by = "mentor" /\ ~c.cool => ~cooling[c.mentor]
    /\ c.step \in {"idle", "row"} => \A n \in Name : nameLock[n] # a
    /\ c.step = "names" => nameLock[c.old] # a \/ nameLock[c.name] # a
    /\ c.step \in {"check", "commit"} => nameLock[c.old] = a /\ nameLock[c.name] = a
    /\ c.step = "commit" => /\ c.by = "mentor" => ~c.cool
                            /\ ~IsSlugTaken(c.name, c.mentor)

RegistrationOK(a) ==
    LET c == change[a] IN
    /\ c.step \in InRegistration =>
          /\ page[c.mentor] = "absent"
          /\ \A b \in NameActor \ {a} : change[b].mentor # c.mentor
    /\ c.step \in {"claim", "taken"} => c.name + c.left <= NumNames
    /\ c.step \in {"taken", "insert"} => nameLock[c.name] = a
    /\ c.step = "insert" => ~IsSlugTaken(c.name, NoMentor)

\* A transaction is about a profile and a name, and a rename about another
\* name of a profile that has one.
LocalsOK(a) ==
    LET c == change[a] IN
    /\ c.step # "idle" => c.mentor \in Mentor /\ c.name \in Name
    /\ c.step \in InRename => c.old \in Name
    /\ c.step = "idle" => c = NoChange

ActorOK(a) == LocalsOK(a) /\ RenameOK(a) /\ RegistrationOK(a)

\* A profile has a name from its registration to its purge, and only rows of
\* live ones are locked.
PageOK(m) ==
    /\ rowLock[m] # NoActor => page[m] = "live"
    /\ page[m] \in {"absent", "purged"} => current[m] = NoName /\ past[m] = <<>>
    /\ page[m] \in {"live", "deleted"} => current[m] \in Name
    /\ NoRepeats(past[m])

SlugInv ==
    /\ SlugTypeOK /\ NamesApart
    /\ \A a \in NameActor : ActorOK(a)
    /\ \A m \in Mentor : PageOK(m)

-----------------------------------------------------------------------------
(* What a step of one actor leaves to the others.                          *)

\* The step of a, or of no actor, touches no lock, row or name that others
\* hold.  A name that a does not hold is given to nobody.
Respects(a) ==
    /\ \A b \in NameActor \ {a} : change'[b] = change[b]
    /\ \A b \in NameActor \ {a}, n \in Name : nameLock'[n] = b <=> nameLock[n] = b
    /\ \A b \in NameActor \ {a}, m \in Mentor : rowLock[m] = b =>
          /\ rowLock'[m] = b
          /\ page'[m] = page[m] /\ current'[m] = current[m] /\ (cooling'[m] => cooling[m])
    /\ \A b \in NameActor \ {a} : change[b].step \in InRegistration =>
          /\ page'[change[b].mentor] = "absent"
          /\ a \in NameActor => change'[a].mentor # change[b].mentor
    /\ \A b \in NameActor \ {a}, n \in Name : nameLock[n] = b => \A m \in Mentor :
          /\ current'[m] = n => current[m] = n
          /\ n \in Elems(past'[m]) => n \in Elems(past[m])

\* An actor whose locks a step respects keeps its part of the invariant.
LEMMA OthersKeep ==
    ASSUME SlugInv, NEW a, Respects(a), NEW b \in NameActor \ {a}
    PROVE  ActorOK(b)'
<1> DEFINE c == change[b]
<1>1. change'[b] = change[b] /\ ActorOK(b) BY DEF SlugInv, Respects
<1>2. LocalsOK(b)' BY <1>1 DEF ActorOK, LocalsOK
<1>3. c.step \in {"check", "commit", "insert"} => c.name \in Name /\ nameLock[c.name] = b
  BY <1>1 DEF ActorOK, LocalsOK, RenameOK, RegistrationOK, InRename
<1>4. RenameOK(b)'
  <2>1. c.step \in InRename =>
          /\ rowLock'[c.mentor] = b /\ page'[c.mentor] = "live"
          /\ current'[c.mentor] = c.old /\ c.old # c.name
          /\ c.by = "mentor" /\ ~c.cool => ~cooling'[c.mentor]
    BY <1>1 DEF ActorOK, LocalsOK, RenameOK, InRename, Respects
  <2>2. c.step \in {"idle", "row"} => \A n \in Name : nameLock'[n] # b
    BY <1>1 DEF ActorOK, RenameOK, Respects
  <2>3. c.step = "names" => nameLock'[c.old] # b \/ nameLock'[c.name] # b
    BY <1>1 DEF ActorOK, LocalsOK, RenameOK, InRename, Respects
  <2>4. c.step \in {"check", "commit"} => nameLock'[c.old] = b /\ nameLock'[c.name] = b
    BY <1>1 DEF ActorOK, LocalsOK, RenameOK, InRename, Respects
  <2>5. c.step = "commit" => (c.by = "mentor" => ~c.cool) /\ ~IsSlugTaken(c.name, c.mentor)'
    <3> SUFFICES ASSUME c.step = "commit"
                 PROVE  (c.by = "mentor" => ~c.cool) /\ ~IsSlugTaken(c.name, c.mentor)'
      OBVIOUS
    <3>1. c.by = "mentor" => ~c.cool BY <1>1 DEF ActorOK, RenameOK
    <3>2. ~IsSlugTaken(c.name, c.mentor) BY <1>1 DEF ActorOK, RenameOK
    <3>3. PICK n \in Name : n = c.name BY <1>3
    <3>4. PICK m \in Mentor : m = c.mentor BY <1>1 DEF ActorOK, LocalsOK
    <3>5. nameLock[n] = b /\ ~IsSlugTaken(n, m) BY <1>3, <3>2, <3>3, <3>4
    <3>6. ~IsSlugTaken(n, m)' BY <3>5 DEF Respects, IsSlugTaken
    <3>7. change'[b].name = n /\ change'[b].mentor = m BY <1>1, <3>3, <3>4
    <3> QED BY <1>1, <3>1, <3>6, <3>7
  <2> QED BY <1>1, <2>1, <2>2, <2>3, <2>4, <2>5 DEF RenameOK
<1>5. RegistrationOK(b)'
  <2>1. c.step \in InRegistration =>
          /\ page'[c.mentor] = "absent"
          /\ \A d \in NameActor \ {b} : change'[d].mentor # c.mentor
    BY <1>1 DEF ActorOK, RegistrationOK, Respects
  <2>2. c.step \in {"claim", "taken"} => c.name + c.left <= NumNames
    BY <1>1 DEF ActorOK, RegistrationOK
  <2>3. c.step \in {"taken", "insert"} => nameLock'[c.name] = b
    BY <1>1 DEF ActorOK, LocalsOK, RegistrationOK, Respects
  <2>4. c.step = "insert" => ~IsSlugTaken(c.name, NoMentor)'
    <3> SUFFICES ASSUME c.step = "insert" PROVE ~IsSlugTaken(c.name, NoMentor)'
      OBVIOUS
    <3>1. PICK n \in Name : n = c.name BY <1>3
    <3>2. nameLock[n] = b /\ ~IsSlugTaken(n, NoMentor)
      BY <1>1, <1>3, <3>1 DEF ActorOK, RegistrationOK
    <3>3. ~IsSlugTaken(n, NoMentor)' BY <3>2 DEF Respects, IsSlugTaken
    <3> QED BY <1>1, <3>1, <3>3
  <2> QED BY <1>1, <2>1, <2>2, <2>3, <2>4 DEF RegistrationOK
<1> QED BY <1>2, <1>4, <1>5 DEF ActorOK

-----------------------------------------------------------------------------
(* Types.                                                                  *)

Change ==
    [step : {"idle", "row", "names", "check", "commit", "claim", "taken", "insert"},
     mentor : Mentor \cup {NoMentor}, name : Name \cup {NoName},
     old : Name \cup {NoName}, by : {"nobody", "mentor", "admin"},
     cool : BOOLEAN, left : 0 .. Retries]

Lookup ==
    [step : {"idle", "current", "redirect", "profile", "hit", "miss"},
     name : Name \cup {NoName}, found : Mentor \cup {NoMentor}, gap : BOOLEAN]

\* Lookups are watched, never moved.
LEMMA WatchType ==
    ASSUME lookup \in [Visitor -> Lookup], NEW pg, NEW cur, NEW old, Watch(pg, cur, old)
    PROVE  lookup' \in [Visitor -> Lookup]
<1> DEFINE missed(v) == \/ lookup[v].gap
                        \/ \A m \in Mentor : ~LeadsTo(lookup[v].name, m, pg, cur, old)
                        \/ \E m \in Mentor : lookup[v].name \in Elems(past[m]) /\ cur[m] = lookup[v].name
           new(v) == IF lookup[v].step \notin {"current", "redirect", "profile"} THEN lookup[v]
                     ELSE [lookup[v] EXCEPT !.gap = missed(v)]
<1>1. lookup' = [v \in Visitor |-> new(v)] BY DEF Watch
<1>2. ASSUME NEW v \in Visitor PROVE new(v) \in Lookup
  <2>1. missed(v) \in BOOLEAN OBVIOUS
  <2> HIDE DEF missed
  <2> QED BY <2>1 DEF Lookup
<1> HIDE DEF new
<1> QED BY <1>1, <1>2

\* A step of an actor that writes no profile.
LEMMA QuietStep ==
    ASSUME SlugInv, NEW a \in NameActor, UNCHANGED <<page, current, past, cooling, lookup>>,
           change' \in [NameActor -> Change],
           rowLock' \in [Mentor -> NameActor \cup {NoActor}],
           nameLock' \in [Name -> NameActor \cup {NoActor}],
           \A b \in NameActor \ {a} : change'[b] = change[b],
           \A b \in NameActor \ {a}, n \in Name : nameLock'[n] = b <=> nameLock[n] = b,
           \A b \in NameActor \ {a}, m \in Mentor : rowLock[m] = b => rowLock'[m] = b,
           \A m \in Mentor : rowLock'[m] # NoActor => rowLock[m] # NoActor \/ page[m] = "live",
           \A b \in NameActor \ {a} : change[b].step \in InRegistration =>
               change'[a].mentor # change[b].mentor,
           ActorOK(a)'
    PROVE  SlugInv'
<1>1. Respects(a) BY DEF Respects, SlugInv, ActorOK, RegistrationOK
<1>2. \A b \in NameActor : ActorOK(b)' BY <1>1, OthersKeep
<1>3. SlugTypeOK' BY DEF SlugInv, SlugTypeOK, Change
<1>4. NamesApart' /\ \A m \in Mentor : PageOK(m)'
  BY DEF SlugInv, NamesApart, Names, PageOK
<1> QED BY <1>2, <1>3, <1>4 DEF SlugInv

\* What the end of a transaction does to the locks and to itself.
LEMMA EndTxEffect ==
    ASSUME SlugInv, NEW a \in NameActor, EndTx(a)
    PROVE  /\ change' \in [NameActor -> Change]
           /\ rowLock' \in [Mentor -> NameActor \cup {NoActor}]
           /\ nameLock' \in [Name -> NameActor \cup {NoActor}]
           /\ change'[a] = NoChange /\ \A b \in NameActor \ {a} : change'[b] = change[b]
           /\ \A b \in NameActor \ {a}, n \in Name : nameLock'[n] = b <=> nameLock[n] = b
           /\ \A b \in NameActor \ {a}, m \in Mentor : rowLock[m] = b => rowLock'[m] = b
           /\ \A m \in Mentor : rowLock'[m] # NoActor => rowLock[m] # NoActor
           /\ \A b \in NameActor \ {a} : change[b].step \in InRegistration =>
                  change'[a].mentor # change[b].mentor
           /\ ActorOK(a)'
<1>1. NoChange \in Change BY NamesAssumption DEF NoChange, Change
<1>2. /\ change \in [NameActor -> Change]
      /\ rowLock \in [Mentor -> NameActor \cup {NoActor}]
      /\ nameLock \in [Name -> NameActor \cup {NoActor}]
  BY DEF SlugInv, SlugTypeOK, Change
<1>3. /\ change' = [change EXCEPT ![a] = NoChange]
      /\ \A m \in Mentor : rowLock'[m] = IF rowLock[m] = a THEN NoActor ELSE rowLock[m]
      /\ \A n \in Name : nameLock'[n] = IF nameLock[n] = a THEN NoActor ELSE nameLock[n]
  BY DEF EndTx
<1>4. change' \in [NameActor -> Change] BY <1>1, <1>2, <1>3
<1>5. rowLock' \in [Mentor -> NameActor \cup {NoActor}] BY <1>2 DEF EndTx
<1>6. nameLock' \in [Name -> NameActor \cup {NoActor}] BY <1>2 DEF EndTx
<1>7. change'[a] = NoChange /\ \A b \in NameActor \ {a} : change'[b] = change[b]
  BY <1>2, <1>3
<1>8. \A n \in Name : nameLock'[n] # a BY <1>3, NamesAssumption
<1>9. \A b \in NameActor \ {a}, n \in Name : nameLock'[n] = b <=> nameLock[n] = b
  BY <1>3, NamesAssumption
<1>10. /\ \A b \in NameActor \ {a}, m \in Mentor : rowLock[m] = b => rowLock'[m] = b
       /\ \A m \in Mentor : rowLock'[m] # NoActor => rowLock[m] # NoActor
  BY <1>3
<1>11. \A b \in NameActor \ {a} : change[b].step \in InRegistration => change[b].mentor \in Mentor
  BY DEF SlugInv, ActorOK, LocalsOK, InRegistration
<1>12. change'[a].mentor = NoMentor BY <1>7 DEF NoChange
<1>13. ActorOK(a)'
  <2>1. change'[a].step = "idle" BY <1>7 DEF NoChange
  <2> QED BY <1>7, <1>8, <2>1
          DEF ActorOK, LocalsOK, RenameOK, RegistrationOK, InRename, InRegistration
<1> QED BY <1>4, <1>5, <1>6, <1>7, <1>9, <1>10, <1>11, <1>12, <1>13, NamesAssumption

\* A transaction that ends without a write.
LEMMA TxEnds ==
    ASSUME SlugInv, NEW a \in NameActor, EndTx(a), UNCHANGED <<page, current, past, cooling, lookup>>
    PROVE  SlugInv'
BY EndTxEffect, QuietStep

-----------------------------------------------------------------------------
(* Steps that request, lock and check.                                     *)

\* A request to rename or register holds nothing yet.
LEMMA RequestsInv ==
    ASSUME SlugInv, NEW a \in NameActor, ChangeRequest(a)
    PROVE  SlugInv'
<1>0. \A b \in NameActor : change[b] \in Change BY DEF SlugInv, SlugTypeOK, Change
<1>1. ASSUME NEW c \in Change, change[a] = NoChange, change' = [change EXCEPT ![a] = c],
             UNCHANGED <<page, current, past, cooling, rowLock, nameLock, lookup>>,
             c.mentor \in Mentor, c.name \in Name,
             \/ c.step = "row"
             \/ c.step = "claim" /\ page[c.mentor] = "absent" /\ c.name + c.left <= NumNames
                /\ \A b \in NameActor : change[b].mentor # c.mentor,
             \A b \in NameActor \ {a} : change[b].step \in InRegistration => c.mentor # change[b].mentor
      PROVE  SlugInv'
  <2>1. /\ change'[a] = c /\ \A b \in NameActor \ {a} : change'[b] = change[b]
        /\ change' \in [NameActor -> Change]
    BY <1>0, <1>1 DEF SlugInv, SlugTypeOK
  <2>2. \A n \in Name : nameLock[n] # a
    BY <1>1 DEF SlugInv, ActorOK, RenameOK, NoChange
  <2>3. ActorOK(a)'
    <3>1. LocalsOK(a)' BY <1>1, <2>1 DEF LocalsOK, InRename
    <3>2. RenameOK(a)' BY <1>1, <2>1, <2>2 DEF RenameOK, InRename
    <3>3. RegistrationOK(a)' BY <1>1, <2>1 DEF RegistrationOK, InRegistration
    <3> QED BY <3>1, <3>2, <3>3 DEF ActorOK
  <2> QED BY <1>1, <2>1, <2>3, QuietStep DEF SlugInv, SlugTypeOK
<1>2. ASSUME NEW m \in Mentor, NEW n \in Name, NEW by \in {"mentor", "admin"}, RequestRename(a, m, n, by)
      PROVE  SlugInv'
  <2> DEFINE c == [NoChange EXCEPT !.step = "row", !.mentor = m, !.name = n, !.by = by]
  <2>1. c \in Change /\ c.mentor = m /\ c.name = n /\ c.step = "row"
    <3>1. NoChange \in Change BY NamesAssumption DEF Change, NoChange
    <3> QED BY <3>1 DEF Change
  <2>2. /\ change[a] = NoChange /\ change' = [change EXCEPT ![a] = c] /\ page[m] = "live"
        /\ UNCHANGED <<page, current, past, cooling, rowLock, nameLock, lookup>>
    BY <1>2 DEF RequestRename
  <2>3. \A b \in NameActor \ {a} : change[b].step \in InRegistration => m # change[b].mentor
    BY <2>2 DEF SlugInv, ActorOK, RegistrationOK
  <2> HIDE DEF c
  <2> QED BY <1>1, <2>1, <2>2, <2>3
<1>3. ASSUME NEW m \in Mentor, NEW n \in Name, NEW left \in 0 .. Retries, n + left <= NumNames,
             RequestRegistration(a, m, n, left)
      PROVE  SlugInv'
  <2> DEFINE c == [NoChange EXCEPT !.step = "claim", !.mentor = m, !.name = n, !.left = left]
  <2>1. c \in Change /\ c.mentor = m /\ c.name = n /\ c.step = "claim" /\ c.left = left
    BY NamesAssumption DEF Change, NoChange
  <2>2. /\ change[a] = NoChange /\ change' = [change EXCEPT ![a] = c] /\ page[m] = "absent"
        /\ \A b \in NameActor : change[b].mentor # m
        /\ UNCHANGED <<page, current, past, cooling, rowLock, nameLock, lookup>>
    BY <1>3 DEF RequestRegistration
  <2> HIDE DEF c
  <2> QED BY <1>1, <1>3, <2>1, <2>2
<1>4. 0 \in 0 .. Retries /\ Retries \in 0 .. Retries BY NamesAssumption
<1>5. \A n \in Name : n + 0 <= NumNames /\ (n + Retries \in Name => n + Retries <= NumNames)
  BY NamesAssumption DEF Name
<1> QED BY <1>2, <1>3, <1>4, <1>5 DEF ChangeRequest

\* The row lock comes with the row's current name.
LEMMA LockMentorRowInv ==
    ASSUME SlugInv, NEW a \in NameActor, LockMentorRow(a)
    PROVE  SlugInv'
<1>1. PICK m \in Mentor : m = change[a].mentor
  BY DEF LockMentorRow, SlugInv, ActorOK, LocalsOK
<1>2. CASE page[m] = "live" /\ current[m] # change[a].name
  <2> DEFINE c == [change[a] EXCEPT !.step = "names", !.old = current[m], !.cool = cooling[m]]
  <2>1. /\ change[a].step = "row" /\ rowLock[m] = NoActor
        /\ rowLock' = [rowLock EXCEPT ![m] = a]
        /\ change' = [change EXCEPT ![a].step = "names", ![a].old = current[m], ![a].cool = cooling[m]]
        /\ UNCHANGED <<page, current, past, cooling, nameLock, lookup>>
    BY <1>1, <1>2 DEF LockMentorRow
  <2>2. change[a] \in Change /\ change \in [NameActor -> Change]
    BY DEF SlugInv, SlugTypeOK, Change
  <2>3. current[m] \in Name /\ cooling[m] \in BOOLEAN
    BY <1>2 DEF SlugInv, PageOK, SlugTypeOK
  <2>4. /\ c \in Change /\ c.step = "names" /\ c.old = current[m] /\ c.cool = cooling[m]
        /\ c.mentor = m /\ c.name = change[a].name /\ c.by = change[a].by
    BY <1>1, <2>2, <2>3 DEF Change
  <2>5. change' = [change EXCEPT ![a] = c] BY <2>1, <2>2 DEF Change
  <2>6. /\ change'[a] = c /\ \A b \in NameActor \ {a} : change'[b] = change[b]
        /\ change' \in [NameActor -> Change]
    BY <2>2, <2>4, <2>5
  <2> HIDE DEF c
  <2>7. c.name \in Name /\ \A n \in Name : nameLock[n] # a
    BY <2>1, <2>4 DEF SlugInv, ActorOK, LocalsOK, RenameOK
  <2>8. rowLock' \in [Mentor -> NameActor \cup {NoActor}] /\ rowLock'[m] = a
        /\ \A o \in Mentor \ {m} : rowLock'[o] = rowLock[o]
    BY <2>1 DEF SlugInv, SlugTypeOK
  <2>9. ActorOK(a)'
    <3>1. LocalsOK(a)' BY <2>3, <2>4, <2>6, <2>7 DEF LocalsOK
    <3>2. ~c.cool => ~cooling'[m] BY <2>1, <2>4
    <3>3. nameLock'[c.old] # a BY <2>1, <2>3, <2>4, <2>7
    <3>4. rowLock'[m] = a /\ page'[m] = "live" /\ current'[m] = c.old /\ c.old # c.name
      BY <1>2, <2>1, <2>4, <2>8
    <3>5. RenameOK(a)' BY <2>4, <2>6, <3>2, <3>3, <3>4 DEF RenameOK, InRename
    <3>6. RegistrationOK(a)' BY <2>4, <2>6 DEF RegistrationOK, InRegistration
    <3> QED BY <3>1, <3>5, <3>6 DEF ActorOK
  <2>10. \A b \in NameActor \ {a} : change[b].step \in InRegistration => change'[a].mentor # change[b].mentor
    BY <1>2, <2>4, <2>6 DEF SlugInv, ActorOK, RegistrationOK
  <2>11. \A b \in NameActor \ {a}, o \in Mentor : rowLock[o] = b => rowLock'[o] = b
    BY <2>1, <2>8, NamesAssumption
  <2>12. nameLock' \in [Name -> NameActor \cup {NoActor}] BY <2>1 DEF SlugInv, SlugTypeOK
  <2>13. \A b \in NameActor \ {a}, n \in Name : nameLock'[n] = b <=> nameLock[n] = b BY <2>1
  <2>14. \A o \in Mentor : rowLock'[o] # NoActor => rowLock[o] # NoActor \/ page[o] = "live"
    BY <1>2, <2>8
  <2> QED BY <2>1, <2>6, <2>8, <2>9, <2>10, <2>11, <2>12, <2>13, <2>14, QuietStep
<1>3. CASE ~(page[m] = "live" /\ current[m] # change[a].name)
  BY <1>1, <1>3, TxEnds DEF LockMentorRow
<1> QED BY <1>2, <1>3

\* A name is locked that nobody holds.
LEMMA TakesLock ==
    ASSUME SlugInv, NEW a \in NameActor, NEW n \in Name, nameLock[n] = NoActor,
           nameLock' = [nameLock EXCEPT ![n] = a]
    PROVE  /\ nameLock' \in [Name -> NameActor \cup {NoActor}] /\ nameLock'[n] = a
           /\ \A b \in NameActor \ {a}, o \in Name : nameLock'[o] = b <=> nameLock[o] = b
           /\ \A o \in Name \ {n} : nameLock'[o] = nameLock[o]
BY NamesAssumption DEF SlugInv, SlugTypeOK

\* Only the step of an actor changes among its locals.
LEMMA NewStep ==
    ASSUME SlugInv, NEW a \in NameActor,
           NEW next \in {"idle", "row", "names", "check", "commit", "claim", "taken", "insert"},
           change' = [change EXCEPT ![a].step = next]
    PROVE  /\ change' \in [NameActor -> Change] /\ change'[a].step = next
           /\ change'[a].mentor = change[a].mentor /\ change'[a].name = change[a].name
           /\ change'[a].old = change[a].old /\ change'[a].by = change[a].by
           /\ change'[a].cool = change[a].cool /\ change'[a].left = change[a].left
           /\ \A b \in NameActor \ {a} : change'[b] = change[b]
<1>1. change \in [NameActor -> Change] /\ change[a] \in Change BY DEF SlugInv, SlugTypeOK, Change
<1> QED BY <1>1 DEF Change

\* The names a rename has yet to lock.
Wanted(a) == {n \in {change[a].old, change[a].name} : nameLock[n] # a}

\* The next name to lock is the one of them that sorts first.
LEMMA NextToLockIsLeast ==
    ASSUME SlugInv, NEW a \in NameActor, change[a].step = "names"
    PROVE  /\ NextToLock(a) \in Wanted(a) /\ NextToLock(a) \in Name
           /\ \A p \in Wanted(a) : NextToLock(a) <= p
<1>1. change[a].old \in Name /\ change[a].name \in Name
  BY DEF SlugInv, ActorOK, LocalsOK, InRename
<1>2. nameLock[change[a].old] # a \/ nameLock[change[a].name] # a
  BY DEF SlugInv, ActorOK, RenameOK
<1>3. \E o \in Wanted(a) : \A p \in Wanted(a) : o <= p
  <2>1. change[a].old \in Int /\ change[a].name \in Int BY <1>1, NamesAssumption DEF Name
  <2> QED BY <1>2, <2>1 DEF Wanted
<1>4. NextToLock(a) = CHOOSE o \in Wanted(a) : \A p \in Wanted(a) : o <= p
  BY DEF NextToLock, Wanted
<1>5. NextToLock(a) \in Wanted(a) /\ \A p \in Wanted(a) : NextToLock(a) <= p
  BY <1>3, <1>4
<1>6. Wanted(a) \subseteq Name BY <1>1 DEF Wanted
<1> QED BY <1>5, <1>6

\* Name locks are taken one by one until both are held.
LEMMA LockSlugsInv ==
    ASSUME SlugInv, NEW a \in NameActor, LockSlugs(a)
    PROVE  SlugInv'
<1> DEFINE c == change[a]
           n == NextToLock(a)
           next == IF \A o \in {c.old, c.name} : nameLock'[o] = a THEN "check" ELSE "names"
<1>1. c.step = "names" BY DEF LockSlugs
<1>2. ActorOK(a) /\ c.old \in Name /\ c.name \in Name /\ c.mentor \in Mentor
  BY <1>1 DEF SlugInv, ActorOK, LocalsOK, InRename
<1>3. n \in Name BY <1>1, NextToLockIsLeast
<1>4. n \in Name /\ nameLock[n] = NoActor /\ nameLock' = [nameLock EXCEPT ![n] = a]
  BY <1>3 DEF LockSlugs
<1>5. change' = [change EXCEPT ![a].step = next] /\ UNCHANGED <<page, current, past, cooling, rowLock, lookup>>
  BY DEF LockSlugs
<1> HIDE DEF n
<1>6. next = "check" \/ next = "names" OBVIOUS
<1>7. next = "check" => nameLock'[c.old] = a /\ nameLock'[c.name] = a OBVIOUS
<1>8. next = "names" => nameLock'[c.old] # a \/ nameLock'[c.name] # a OBVIOUS
<1>9. PICK to \in {"names", "check"} : to = next BY <1>6
<1> HIDE DEF next
<1>10. /\ change' \in [NameActor -> Change] /\ change'[a].step = to
       /\ change'[a].mentor = c.mentor /\ change'[a].name = c.name
       /\ change'[a].old = c.old /\ change'[a].by = c.by
       /\ change'[a].cool = c.cool /\ change'[a].left = c.left
       /\ \A b \in NameActor \ {a} : change'[b] = change[b]
  BY <1>5, <1>9, NewStep
<1>11. /\ nameLock' \in [Name -> NameActor \cup {NoActor}]
       /\ \A b \in NameActor \ {a}, o \in Name : nameLock'[o] = b <=> nameLock[o] = b
  BY <1>4, TakesLock
<1>12. ActorOK(a)'
  <2>1. LocalsOK(a)' BY <1>1, <1>2, <1>10 DEF LocalsOK
  <2>2. c.step \in InRename BY <1>1 DEF InRename
  <2>3. RenameOK(a)'
    BY <1>2, <1>5, <1>7, <1>8, <1>9, <1>10, <2>2 DEF ActorOK, RenameOK, InRename
  <2>4. RegistrationOK(a)' BY <1>10 DEF RegistrationOK, InRegistration
  <2> QED BY <2>1, <2>3, <2>4 DEF ActorOK
<1>13. \A b \in NameActor \ {a} : change[b].step \in InRegistration => change'[a].mentor # change[b].mentor
  BY <1>10 DEF SlugInv, ActorOK, RegistrationOK
<1>14. rowLock' \in [Mentor -> NameActor \cup {NoActor}] BY <1>5 DEF SlugInv, SlugTypeOK
<1> QED BY <1>5, <1>10, <1>11, <1>12, <1>13, <1>14, QuietStep

\* What the check finds free is locked.
LEMMA CheckRenameInv ==
    ASSUME SlugInv, NEW a \in NameActor, CheckRename(a)
    PROVE  SlugInv'
<1> DEFINE c == change[a]
<1>1. CASE RefusesRename(c) BY <1>1, TxEnds DEF CheckRename
<1>2. CASE ~RefusesRename(c)
  <2>1. /\ c.step = "check" /\ change' = [change EXCEPT ![a].step = "commit"]
        /\ UNCHANGED <<page, current, past, cooling, rowLock, nameLock, lookup>>
    BY <1>2 DEF CheckRename
  <2>2. /\ change' \in [NameActor -> Change] /\ change'[a].step = "commit"
        /\ change'[a].mentor = c.mentor /\ change'[a].name = c.name
        /\ change'[a].old = c.old /\ change'[a].by = c.by
        /\ change'[a].cool = c.cool /\ change'[a].left = c.left
        /\ \A b \in NameActor \ {a} : change'[b] = change[b]
    BY <2>1, NewStep
  <2>3. ActorOK(a) /\ c.step \in InRename BY <2>1 DEF SlugInv, InRename
  <2>4. LocalsOK(a)' BY <2>2, <2>3 DEF ActorOK, LocalsOK, InRename
  <2>5. ~IsSlugTaken(c.name, c.mentor) /\ (c.by = "mentor" => ~c.cool)
    BY <1>2 DEF RefusesRename
  <2>6. PICK n : n = c.name OBVIOUS
  <2>7. PICK m : m = c.mentor OBVIOUS
  <2>8. ~IsSlugTaken(n, m)' BY <2>1, <2>5, <2>6, <2>7 DEF IsSlugTaken
  <2>9. RenameOK(a)'
    BY <2>1, <2>2, <2>3, <2>5, <2>6, <2>7, <2>8 DEF ActorOK, RenameOK, InRename
  <2>10. RegistrationOK(a)' BY <2>2 DEF RegistrationOK, InRegistration
  <2>11. \A b \in NameActor \ {a} : change[b].step \in InRegistration => change'[a].mentor # change[b].mentor
    BY <2>2 DEF SlugInv, ActorOK, RegistrationOK
  <2> QED BY <2>1, <2>2, <2>4, <2>9, <2>10, <2>11, QuietStep DEF ActorOK, SlugInv, SlugTypeOK
<1> QED BY <1>1, <1>2

\* A registration locks the name it wants.
LEMMA ClaimSlugInv ==
    ASSUME SlugInv, NEW a \in NameActor, ClaimSlug(a)
    PROVE  SlugInv'
<1>1. PICK n \in Name : n = change[a].name BY DEF ClaimSlug, SlugInv, ActorOK, LocalsOK
<1>2. /\ change[a].step = "claim" /\ nameLock[n] = NoActor
      /\ nameLock' = [nameLock EXCEPT ![n] = a]
      /\ change' = [change EXCEPT ![a].step = "taken"]
      /\ UNCHANGED <<page, current, past, cooling, rowLock, lookup>>
  BY <1>1 DEF ClaimSlug
<1>3. /\ change' \in [NameActor -> Change] /\ change'[a].step = "taken"
      /\ change'[a].mentor = change[a].mentor /\ change'[a].name = n
      /\ change'[a].left = change[a].left
      /\ \A b \in NameActor \ {a} : change'[b] = change[b]
  BY <1>1, <1>2, NewStep
<1>4. /\ nameLock' \in [Name -> NameActor \cup {NoActor}] /\ nameLock'[n] = a
      /\ \A b \in NameActor \ {a}, o \in Name : nameLock'[o] = b <=> nameLock[o] = b
  BY <1>2, TakesLock
<1>5. ActorOK(a) BY DEF SlugInv
<1>6. LocalsOK(a)' BY <1>1, <1>2, <1>3, <1>5 DEF ActorOK, LocalsOK, InRename
<1>7. RenameOK(a)' BY <1>3 DEF RenameOK, InRename
<1>8. RegistrationOK(a)' BY <1>1, <1>2, <1>3, <1>4, <1>5 DEF ActorOK, RegistrationOK, InRegistration
<1>9. \A b \in NameActor \ {a} : change[b].step \in InRegistration => change'[a].mentor # change[b].mentor
  BY <1>3 DEF SlugInv, ActorOK, RegistrationOK
<1> QED BY <1>2, <1>3, <1>4, <1>6, <1>7, <1>8, <1>9, QuietStep DEF ActorOK, SlugInv, SlugTypeOK

\* A generated name goes to the next suffix, a free one to the insert.
LEMMA CheckClaimInv ==
    ASSUME SlugInv, NEW a \in NameActor, CheckClaim(a)
    PROVE  SlugInv'
<1> DEFINE c == change[a]
<1>0. c.step = "taken" /\ ActorOK(a) /\ c.name \in Name /\ c.mentor \in Mentor
  BY DEF CheckClaim, SlugInv, ActorOK, LocalsOK
<1>1. CASE ~IsSlugTaken(c.name, NoMentor)
  <2>1. /\ change' = [change EXCEPT ![a].step = "insert"]
        /\ UNCHANGED <<page, current, past, cooling, rowLock, nameLock, lookup>>
    BY <1>1 DEF CheckClaim
  <2>2. /\ change' \in [NameActor -> Change] /\ change'[a].step = "insert"
        /\ change'[a].mentor = c.mentor /\ change'[a].name = c.name
        /\ \A b \in NameActor \ {a} : change'[b] = change[b]
    BY <2>1, NewStep
  <2>3. PICK n : n = c.name OBVIOUS
  <2>4. ~IsSlugTaken(n, NoMentor)' BY <1>1, <2>1, <2>3 DEF IsSlugTaken
  <2>5. LocalsOK(a)' BY <1>0, <2>2 DEF ActorOK, LocalsOK, InRename
  <2>6. RenameOK(a)' BY <2>2 DEF RenameOK, InRename
  <2>7. RegistrationOK(a)'
    BY <1>0, <2>1, <2>2, <2>3, <2>4 DEF ActorOK, RegistrationOK, InRegistration
  <2>8. \A b \in NameActor \ {a} : change[b].step \in InRegistration => change'[a].mentor # change[b].mentor
    BY <2>2 DEF SlugInv, ActorOK, RegistrationOK
  <2> QED BY <2>1, <2>2, <2>5, <2>6, <2>7, <2>8, QuietStep DEF ActorOK, SlugInv, SlugTypeOK
<1>2. CASE IsSlugTaken(c.name, NoMentor) /\ c.left > 0
  <2> DEFINE d == [c EXCEPT !.step = "claim", !.name = c.name + 1, !.left = c.left - 1]
  <2>1. /\ change' = [change EXCEPT ![a].step = "claim", ![a].name = @ + 1, ![a].left = @ - 1]
        /\ UNCHANGED <<page, current, past, cooling, rowLock, nameLock, lookup>>
    BY <1>2 DEF CheckClaim
  <2>2. change \in [NameActor -> Change] /\ c \in Change BY DEF SlugInv, SlugTypeOK, Change
  <2>3. c.name + c.left <= NumNames BY <1>0 DEF ActorOK, RegistrationOK
  <2>4. c.left \in 0 .. Retries BY <2>2 DEF Change
  <2>5. c.name + 1 \in Name /\ c.left - 1 \in 0 .. Retries /\ (c.name + 1) + (c.left - 1) <= NumNames
    BY <1>0, <1>2, <2>3, <2>4, NamesAssumption DEF Name
  <2>6. /\ d \in Change /\ d.step = "claim" /\ d.name = c.name + 1 /\ d.left = c.left - 1
        /\ d.mentor = c.mentor
    BY <2>2, <2>5 DEF Change
  <2>7. change' = [change EXCEPT ![a] = d] BY <2>1, <2>2 DEF Change
  <2>8. /\ change'[a] = d /\ \A b \in NameActor \ {a} : change'[b] = change[b]
        /\ change' \in [NameActor -> Change]
    BY <2>2, <2>6, <2>7
  <2> HIDE DEF d
  <2>9. LocalsOK(a)' BY <1>0, <2>5, <2>6, <2>8 DEF LocalsOK, InRename
  <2>10. RenameOK(a)' BY <2>6, <2>8 DEF RenameOK, InRename
  <2>11. RegistrationOK(a)'
    BY <1>0, <2>1, <2>5, <2>6, <2>8 DEF ActorOK, RegistrationOK, InRegistration
  <2>12. \A b \in NameActor \ {a} : change[b].step \in InRegistration => change'[a].mentor # change[b].mentor
    BY <2>6, <2>8 DEF SlugInv, ActorOK, RegistrationOK
  <2> QED BY <2>1, <2>8, <2>9, <2>10, <2>11, <2>12, QuietStep DEF ActorOK, SlugInv, SlugTypeOK
<1>3. CASE IsSlugTaken(c.name, NoMentor) /\ ~(c.left > 0) BY <1>3, TxEnds DEF CheckClaim
<1> QED BY <1>1, <1>2, <1>3

-----------------------------------------------------------------------------
(* Steps that write profiles.                                              *)

\* No name is no name.
LEMMA NoNameIsNone == NoName \notin Name
BY NamesAssumption DEF NoName, Name

\* What a rename may rely on when it commits.
CommitFacts(m, n, old) ==
    /\ m \in Mentor /\ n \in Name /\ old \in Name /\ old # n
    /\ page[m] = "live" /\ current[m] = old
    /\ \A o \in Mentor : current[o] # n /\ old \notin Elems(past[o])
    /\ \A o \in Mentor \ {m} : n \notin Elems(past[o])
    /\ past[m] \in Seq(Name) /\ NoRepeats(past[m])

\* A rename about to commit: its new name is free, its old one is nobody's redirect.
LEMMA CommitRelies ==
    ASSUME SlugInv, NEW a \in NameActor, change[a].step = "commit"
    PROVE  CommitFacts(change[a].mentor, change[a].name, change[a].old)
<1>1. ActorOK(a) BY DEF SlugInv
<1>2. PICK m \in Mentor : m = change[a].mentor BY <1>1 DEF ActorOK, LocalsOK
<1>3. PICK n \in Name : n = change[a].name BY <1>1 DEF ActorOK, LocalsOK
<1>4. PICK old \in Name : old = change[a].old BY <1>1 DEF ActorOK, LocalsOK, InRename
<1>5. page[m] = "live" /\ current[m] = old /\ old # n /\ ~IsSlugTaken(n, m)
  BY <1>1, <1>2, <1>3, <1>4 DEF ActorOK, RenameOK, InRename
<1>6. \A o \in Mentor : old \notin Elems(past[o])
  <2>1. old \in Names(m) BY <1>5, NoNameIsNone DEF Names
  <2>2. old \notin Elems(past[m]) BY <1>5 DEF SlugInv, NamesApart
  <2>3. \A o \in Mentor \ {m} : old \notin Names(o) BY <2>1 DEF SlugInv, NamesApart
  <2> QED BY <2>2, <2>3 DEF Names
<1>7. past[m] \in Seq(Name) /\ NoRepeats(past[m]) BY DEF SlugInv, SlugTypeOK, PageOK
<1> QED BY <1>2, <1>3, <1>4, <1>5, <1>6, <1>7 DEF CommitFacts, IsSlugTaken

\* The commit swaps two names that its actor has locked.
LEMMA CommitRenameInv ==
    ASSUME SlugInv, NEW a \in NameActor, CommitRename(a)
    PROVE  SlugInv'
<1>1. PICK m, n, old : m = change[a].mentor /\ n = change[a].name /\ old = change[a].old
  OBVIOUS
<1>2. CommitFacts(m, n, old) BY <1>1, CommitRelies DEF CommitRename
<1>3. CASE RenameConflict(change[a]) BY <1>3, TxEnds DEF CommitRename
<1>4. CASE ~RenameConflict(change[a])
  <2> DEFINE left == Retire(m, n, old)
  <2>1. /\ EndTx(a) /\ current' = [current EXCEPT ![m] = n] /\ past' = [past EXCEPT ![m] = left]
        /\ cooling' = [cooling EXCEPT ![m] = @ \/ change[a].by = "mentor"]
        /\ Watch(page, current', past') /\ UNCHANGED page
    BY <1>1, <1>4 DEF CommitRename
  <2>2. /\ left \in Seq(Name) /\ Len(left) <= KeepCount /\ NoRepeats(left)
        /\ Elems(left) \subseteq (Elems(past[m]) \ {n}) \cup {old}
    BY <1>2, RetireKeepsNewest DEF CommitFacts
  <2> HIDE DEF left
  <2>3. /\ current'[m] = n /\ \A o \in Mentor \ {m} : current'[o] = current[o]
        /\ past'[m] = left /\ \A o \in Mentor \ {m} : past'[o] = past[o]
        /\ \A o \in Mentor \ {m} : cooling'[o] = cooling[o]
    BY <1>2, <2>1 DEF SlugInv, SlugTypeOK, CommitFacts
  <2>4. nameLock[n] = a /\ nameLock[old] = a /\ rowLock[m] = a
    BY <1>1 DEF CommitRename, SlugInv, ActorOK, RenameOK, InRename
  <2>5. Respects(a)
    <3>1. \A b \in NameActor \ {a} : change[b].step \in InRegistration => page[change[b].mentor] = "absent"
      BY DEF SlugInv, ActorOK, RegistrationOK
    <3>2. \A b \in NameActor \ {a}, o \in Mentor : rowLock[o] = b => o # m BY <2>4
    <3>3. \A b \in NameActor \ {a}, x \in Name : nameLock[x] = b => \A o \in Mentor :
             /\ current'[o] = x => current[o] = x
             /\ x \in Elems(past'[o]) => x \in Elems(past[o])
      BY <2>2, <2>3, <2>4
    <3>4. \A b \in NameActor \ {a} : change[b].step \in InRegistration => change'[a].mentor # change[b].mentor
      BY <2>1, EndTxEffect
    <3> QED BY <2>1, <2>3, <3>1, <3>2, <3>3, <3>4, EndTxEffect DEF Respects
  <2>6. \A b \in NameActor : ActorOK(b)' BY <2>1, <2>5, EndTxEffect, OthersKeep
  <2>7. \A o \in Mentor : PageOK(o)'
    <3>1. \A o \in Mentor : rowLock'[o] # NoActor => rowLock[o] # NoActor BY <2>1, EndTxEffect
    <3> QED BY <1>2, <2>1, <2>2, <2>3, <3>1 DEF SlugInv, PageOK, CommitFacts
  <2>8. NamesApart'
    <3>1. Names(m)' \subseteq Names(m) \cup {n} BY <1>2, <2>2, <2>3, NamesAssumption
      DEF Names, CommitFacts, Name, NoName
    <3>2. \A o \in Mentor \ {m} : Names(o)' = Names(o) /\ n \notin Names(o)
      BY <1>2, <2>3 DEF Names, CommitFacts
    <3>3. \A m1, m2 \in Mentor : m1 # m2 => Names(m1)' \cap Names(m2)' = {}
      BY <3>1, <3>2 DEF SlugInv, NamesApart
    <3>4. current'[m] \notin Elems(past'[m]) /\ Len(past'[m]) <= KeepCount
      BY <1>2, <2>2, <2>3 DEF CommitFacts
    <3>5. \A o \in Mentor \ {m} : current'[o] \notin Elems(past'[o]) /\ Len(past'[o]) <= KeepCount
      BY <2>3 DEF SlugInv, NamesApart
    <3> QED BY <3>3, <3>4, <3>5 DEF NamesApart
  <2>9. SlugTypeOK'
    <3>1. lookup' \in [Visitor -> Lookup]
      BY <2>1, WatchType DEF SlugInv, SlugTypeOK, Lookup
    <3>2. current' \in [Mentor -> Name \cup {NoName}] /\ past' \in [Mentor -> Seq(Name)]
      BY <1>2, <2>1, <2>2 DEF SlugInv, SlugTypeOK, CommitFacts
    <3>3. cooling' \in [Mentor -> BOOLEAN] BY <2>1 DEF SlugInv, SlugTypeOK
    <3> QED BY <2>1, <3>1, <3>2, <3>3, EndTxEffect DEF SlugInv, SlugTypeOK, Change, Lookup
  <2> QED BY <2>6, <2>7, <2>8, <2>9 DEF SlugInv
<1> QED BY <1>3, <1>4

\* A registration takes a name that nobody has.
LEMMA InsertMentorInv ==
    ASSUME SlugInv, NEW a \in NameActor, InsertMentor(a)
    PROVE  SlugInv'
<1>1. ActorOK(a) /\ change[a].step = "insert" /\ EndTx(a) BY DEF SlugInv, InsertMentor
<1>2. PICK m \in Mentor : m = change[a].mentor BY <1>1 DEF ActorOK, LocalsOK
<1>3. PICK n \in Name : n = change[a].name BY <1>1 DEF ActorOK, LocalsOK
<1>4. CASE \E o \in Mentor : current[o] = change[a].name BY <1>4, TxEnds DEF InsertMentor
<1>5. CASE ~\E o \in Mentor : current[o] = change[a].name
  <2>1. /\ page' = [page EXCEPT ![m] = "live"] /\ current' = [current EXCEPT ![m] = n]
        /\ Watch(page', current', past) /\ UNCHANGED <<past, cooling>>
    BY <1>2, <1>3, <1>5 DEF InsertMentor
  <2>2. /\ page'[m] = "live" /\ \A o \in Mentor \ {m} : page'[o] = page[o]
        /\ current'[m] = n /\ \A o \in Mentor \ {m} : current'[o] = current[o]
    BY <2>1 DEF SlugInv, SlugTypeOK
  <2>3. /\ page[m] = "absent" /\ nameLock[n] = a /\ ~IsSlugTaken(n, NoMentor)
        /\ \A b \in NameActor \ {a} : change[b].mentor # m
    BY <1>1, <1>2, <1>3 DEF ActorOK, RegistrationOK, InRegistration
  <2>4. \A o \in Mentor : current[o] # n /\ n \notin Elems(past[o])
    BY <2>3, NamesAssumption DEF IsSlugTaken
  <2>5. Respects(a)
    <3>1. \A b \in NameActor \ {a}, o \in Mentor : rowLock[o] = b => o # m
      BY <2>3, NamesAssumption DEF SlugInv, PageOK
    <3>2. \A b \in NameActor \ {a} : change[b].step \in InRegistration => page'[change[b].mentor] = "absent"
      <4>1. \A b \in NameActor \ {a} : change[b].step \in InRegistration =>
               change[b].mentor \in Mentor /\ page[change[b].mentor] = "absent" /\ change[b].mentor # m
        BY <2>3 DEF SlugInv, ActorOK, LocalsOK, RegistrationOK, InRegistration
      <4> QED BY <2>2, <4>1
    <3>3. \A b \in NameActor \ {a}, x \in Name : nameLock[x] = b => \A o \in Mentor :
             /\ current'[o] = x => current[o] = x
             /\ x \in Elems(past'[o]) => x \in Elems(past[o])
      BY <2>1, <2>2, <2>3
    <3>4. \A b \in NameActor \ {a} : change[b].step \in InRegistration => change'[a].mentor # change[b].mentor
      BY <1>1, EndTxEffect
    <3> QED BY <1>1, <2>1, <2>2, <3>1, <3>2, <3>3, <3>4, EndTxEffect DEF Respects
  <2>6. \A b \in NameActor : ActorOK(b)' BY <1>1, <2>5, EndTxEffect, OthersKeep
  <2>7. \A o \in Mentor : PageOK(o)'
    <3>1. \A o \in Mentor : rowLock'[o] # NoActor => rowLock[o] # NoActor BY <1>1, EndTxEffect
    <3> QED BY <2>1, <2>2, <3>1 DEF SlugInv, PageOK
  <2>8. NamesApart'
    <3>1. Names(m)' \subseteq Names(m) \cup {n} BY <2>1, <2>2 DEF Names
    <3>2. \A o \in Mentor \ {m} : Names(o)' = Names(o) /\ n \notin Names(o)
      BY <2>1, <2>2, <2>4 DEF Names
    <3>3. \A m1, m2 \in Mentor : m1 # m2 => Names(m1)' \cap Names(m2)' = {}
      BY <3>1, <3>2 DEF SlugInv, NamesApart
    <3>4. \A o \in Mentor : current'[o] \notin Elems(past'[o]) /\ Len(past'[o]) <= KeepCount
      BY <2>1, <2>2, <2>4 DEF SlugInv, NamesApart
    <3> QED BY <3>3, <3>4 DEF NamesApart
  <2>9. SlugTypeOK'
    <3>1. lookup' \in [Visitor -> Lookup]
      BY <2>1, WatchType DEF SlugInv, SlugTypeOK, Lookup
    <3> QED BY <1>1, <2>1, <3>1, EndTxEffect DEF SlugInv, SlugTypeOK, Change, Lookup
  <2> QED BY <2>6, <2>7, <2>8, <2>9 DEF SlugInv
<1> QED BY <1>4, <1>5

\* A step that is no actor's, on a profile whose row is not locked: names are
\* given up at most.
LEMMA UnlockedStep ==
    ASSUME SlugInv, NEW m \in Mentor, UNCHANGED <<rowLock, nameLock, change>>, SlugTypeOK',
           \A o \in Mentor \ {m} : page'[o] = page[o] /\ cooling'[o] = cooling[o],
           \A o \in Mentor : current'[o] \in {current[o], NoName} /\ past'[o] \in {past[o], <<>>},
           rowLock[m] = NoActor \/ (page'[m] = page[m] /\ current'[m] = current[m] /\ ~cooling'[m]),
           \A o \in Mentor \ {m} : current'[o] = current[o],
           page[m] # "absent" \/ page'[m] = page[m], PageOK(m)', \A o \in Mentor \ {m} : past'[o] = past[o]
    PROVE  SlugInv'
<1>1. Elems(<<>>) = {} BY DEF Elems
<1>2. Respects(NoActor)
  <2>1. \A b \in NameActor \ {NoActor} : change[b].step \in InRegistration =>
           page'[change[b].mentor] = "absent"
    <3>1. \A b \in NameActor : change[b].step \in InRegistration =>
             change[b].mentor \in Mentor /\ page[change[b].mentor] = "absent"
      BY DEF SlugInv, ActorOK, LocalsOK, RegistrationOK, InRegistration
    <3> QED BY <3>1
  <2>2. \A b \in NameActor \ {NoActor}, o \in Mentor : rowLock[o] = b =>
          page'[o] = page[o] /\ current'[o] = current[o] /\ (cooling'[o] => cooling[o])
    <3> SUFFICES ASSUME NEW b \in NameActor \ {NoActor}, NEW o \in Mentor, rowLock[o] = b
                 PROVE  page'[o] = page[o] /\ current'[o] = current[o] /\ (cooling'[o] => cooling[o])
      OBVIOUS
    <3>1. CASE o = m BY <3>1
    <3>2. CASE o # m BY <3>2
    <3> QED BY <3>1, <3>2
  <2>3. \A x \in Name, o \in Mentor :
          /\ current'[o] = x => current[o] = x
          /\ x \in Elems(past'[o]) => x \in Elems(past[o])
    BY <1>1, NoNameIsNone
  <2> QED BY <2>1, <2>2, <2>3, NamesAssumption DEF Respects
<1>3. \A b \in NameActor : ActorOK(b)' BY <1>2, OthersKeep, NamesAssumption
<1>4. \A o \in Mentor : PageOK(o)' BY DEF SlugInv, PageOK
<1>5. NamesApart'
  <2>1. \A o \in Mentor : Names(o)' \subseteq Names(o) BY <1>1 DEF Names
  <2>2. \A o \in Mentor : current'[o] \notin Elems(past'[o]) /\ Len(past'[o]) <= KeepCount
    <3> TAKE o \in Mentor
    <3>1. current[o] \notin Elems(past[o]) /\ Len(past[o]) <= KeepCount BY DEF SlugInv, NamesApart
    <3>2. CASE past'[o] = <<>>
      <4>1. Len(past'[o]) <= KeepCount BY <3>2, NamesAssumption
      <4> QED BY <1>1, <3>2, <4>1
    <3>3. CASE past'[o] = past[o]
      <4>1. NoName \notin Elems(past[o]) BY NoNameIsNone DEF SlugInv, SlugTypeOK, Elems
      <4>2. current'[o] \notin Elems(past[o]) BY <3>1, <4>1
      <4> QED BY <3>1, <3>3, <4>2
    <3> QED BY <3>2, <3>3
  <2> QED BY <2>1, <2>2 DEF SlugInv, NamesApart
<1> QED BY <1>3, <1>4, <1>5 DEF SlugInv

\* Deletion, restore and purge give names up at most.
LEMMA ProfileStepInv ==
    ASSUME SlugInv, NEW m \in Mentor, ProfileStep(m)
    PROVE  SlugInv'
<1>0. SlugTypeOK /\ PageOK(m) BY DEF SlugInv
<1>1. CASE SoftDelete(m)
  <2>1. /\ page[m] = "live" /\ rowLock[m] = NoActor /\ page' = [page EXCEPT ![m] = "deleted"]
        /\ Watch(page', current, past)
        /\ UNCHANGED <<current, past, cooling, rowLock, nameLock, change>>
    BY <1>1 DEF SoftDelete
  <2>2. lookup' \in [Visitor -> Lookup] BY <1>0, <2>1, WatchType DEF SlugTypeOK, Lookup
  <2>3. SlugTypeOK' BY <1>0, <2>1, <2>2 DEF SlugTypeOK, Lookup
  <2>4. page'[m] = "deleted" /\ \A o \in Mentor \ {m} : page'[o] = page[o]
    BY <1>0, <2>1 DEF SlugTypeOK
  <2>5. PageOK(m)' BY <1>0, <2>1, <2>4 DEF PageOK
  <2> QED BY <2>1, <2>3, <2>4, <2>5, UnlockedStep
<1>2. CASE RestoreDeleted(m)
  <2>1. /\ page[m] = "deleted" /\ rowLock[m] = NoActor /\ page' = [page EXCEPT ![m] = "live"]
        /\ UNCHANGED <<current, past, cooling, rowLock, nameLock, change, lookup>>
    BY <1>2 DEF RestoreDeleted
  <2>2. SlugTypeOK' BY <1>0, <2>1 DEF SlugTypeOK
  <2>3. page'[m] = "live" /\ \A o \in Mentor \ {m} : page'[o] = page[o]
    BY <1>0, <2>1 DEF SlugTypeOK
  <2>4. PageOK(m)' BY <1>0, <2>1, <2>3 DEF PageOK
  <2> QED BY <2>1, <2>2, <2>3, <2>4, UnlockedStep
<1>3. CASE PurgeRow(m)
  <2>1. /\ page[m] = "deleted" /\ rowLock[m] = NoActor /\ page' = [page EXCEPT ![m] = "purged"]
        /\ current' = [current EXCEPT ![m] = NoName] /\ past' = [past EXCEPT ![m] = <<>>]
        /\ UNCHANGED <<cooling, rowLock, nameLock, change, lookup>>
    BY <1>3 DEF PurgeRow
  <2>2. SlugTypeOK' BY <1>0, <2>1 DEF SlugTypeOK
  <2>3. /\ page'[m] = "purged" /\ \A o \in Mentor \ {m} : page'[o] = page[o]
        /\ current'[m] = NoName /\ \A o \in Mentor \ {m} : current'[o] = current[o]
        /\ past'[m] = <<>> /\ \A o \in Mentor \ {m} : past'[o] = past[o]
    BY <1>0, <2>1 DEF SlugTypeOK
  <2>4. PageOK(m)' BY <1>0, <2>1, <2>3 DEF PageOK, NoRepeats
  <2> QED BY <2>1, <2>2, <2>3, <2>4, UnlockedStep
<1>4. CASE CooldownPasses(m)
  <2>1. /\ cooling' = [cooling EXCEPT ![m] = FALSE]
        /\ UNCHANGED <<page, current, past, rowLock, nameLock, change, lookup>>
    BY <1>4 DEF CooldownPasses
  <2>2. SlugTypeOK' BY <1>0, <2>1 DEF SlugTypeOK
  <2>3. ~cooling'[m] /\ \A o \in Mentor \ {m} : cooling'[o] = cooling[o]
    BY <1>0, <2>1 DEF SlugTypeOK
  <2>4. PageOK(m)' BY <1>0, <2>1 DEF PageOK
  <2> QED BY <2>1, <2>2, <2>3, <2>4, UnlockedStep
<1> QED BY <1>1, <1>2, <1>3, <1>4 DEF ProfileStep

\* Readers change nothing.
LEMMA LookupOnly ==
    ASSUME SlugInv, lookup' \in [Visitor -> Lookup],
           UNCHANGED <<page, current, past, cooling, rowLock, nameLock, change>>
    PROVE  SlugInv'
<1>1. SlugTypeOK' BY DEF SlugInv, SlugTypeOK, Lookup
<1>2. NamesApart' BY DEF SlugInv, NamesApart, Names
<1>3. \A m \in Mentor : PageOK(m)' BY DEF SlugInv, PageOK
<1>4. Respects(NoActor) BY NamesAssumption DEF Respects, SlugInv, ActorOK, RegistrationOK
<1>5. \A a \in NameActor : ActorOK(a)' BY <1>4, OthersKeep, NamesAssumption
<1> QED BY <1>1, <1>2, <1>3, <1>5 DEF SlugInv

\* A lookup moves the visitor only.
LEMMA VisitorStepInv ==
    ASSUME SlugInv, NEW v \in Visitor, VisitorStep(v)
    PROVE  SlugInv'
<1>0. lookup \in [Visitor -> Lookup] /\ lookup[v] \in Lookup
  BY DEF SlugInv, SlugTypeOK, Lookup
<1>1. ASSUME NEW n \in Name, BeginLookup(v, n) PROVE SlugInv'
  <2> DEFINE g == \A m \in Mentor : ~LeadsTo(n, m, page, current, past)
             l == [NoLookup EXCEPT !.step = "current", !.name = n, !.gap = g]
  <2>1. lookup' = [lookup EXCEPT ![v] = l]
        /\ UNCHANGED <<page, current, past, cooling, rowLock, nameLock, change>>
    BY <1>1 DEF BeginLookup
  <2>2. g \in BOOLEAN OBVIOUS
  <2> HIDE DEF g
  <2>3. l \in Lookup BY <2>2 DEF Lookup, NoLookup
  <2> HIDE DEF l
  <2> QED BY <1>0, <2>1, <2>3, LookupOnly
<1>2. ASSUME NEW m \in Mentor \cup {NoMentor}, Answer(v, m) PROVE lookup' \in [Visitor -> Lookup]
  <2> DEFINE s == IF page[m] = "live" THEN "hit" ELSE "miss"
             l == [lookup[v] EXCEPT !.step = s, !.found = m]
  <2>1. s \in {"hit", "miss"} OBVIOUS
  <2>2. lookup' = [lookup EXCEPT ![v].step = s, ![v].found = m] BY <1>2 DEF Answer
  <2> HIDE DEF s
  <2>3. l \in Lookup BY <1>0, <2>1 DEF Lookup
  <2>4. lookup' = [lookup EXCEPT ![v] = l] BY <1>0, <2>2 DEF Lookup
  <2> HIDE DEF l
  <2> QED BY <1>0, <2>3, <2>4
<1>3. ASSUME NEW s \in {"redirect", "miss"}, lookup' = [lookup EXCEPT ![v].step = s]
      PROVE  lookup' \in [Visitor -> Lookup]
  <2>1. [lookup[v] EXCEPT !.step = s] \in Lookup BY <1>0 DEF Lookup
  <2> QED BY <1>0, <1>3, <2>1
<1>4. CASE LookupCurrent(v) BY <1>2, <1>3, <1>4, LookupOnly DEF LookupCurrent
<1>5. CASE LookupRedirect(v)
  <2>1. ASSUME NEW m \in Mentor,
               lookup' = [lookup EXCEPT ![v].step = "profile", ![v].found = m]
        PROVE  lookup' \in [Visitor -> Lookup]
    <3> DEFINE l == [lookup[v] EXCEPT !.step = "profile", !.found = m]
    <3>1. l \in Lookup BY <1>0 DEF Lookup
    <3>2. lookup' = [lookup EXCEPT ![v] = l] BY <1>0, <2>1 DEF Lookup
    <3> HIDE DEF l
    <3> QED BY <1>0, <3>1, <3>2
  <2> QED BY <1>3, <1>5, <2>1, LookupOnly DEF LookupRedirect
<1>6. CASE LookupProfile(v)
  <2>1. lookup[v].found \in Mentor \cup {NoMentor} BY <1>0 DEF Lookup
  <2> QED BY <1>2, <1>6, <2>1, LookupOnly DEF LookupProfile
<1> QED BY <1>1, <1>4, <1>5, <1>6 DEF VisitorStep

\* The first state is in the invariant.
LEMMA SlugInitInv == SlugInit => SlugInv
<1> SUFFICES ASSUME SlugInit PROVE SlugInv OBVIOUS
<1>1. Elems(<<>>) = {} BY DEF Elems
<1>2. NoChange \in Change /\ NoLookup \in Lookup
  BY NamesAssumption DEF NoChange, NoLookup, Change, Lookup
<1>3. SlugTypeOK BY <1>2 DEF SlugInit, SlugTypeOK, Change, Lookup
<1>4. NamesApart
  <2>1. \A m \in Mentor : current[m] = NoName /\ past[m] = <<>> BY DEF SlugInit
  <2>2. Len(<<>>) <= KeepCount BY NamesAssumption
  <2> QED BY <1>1, <2>1, <2>2 DEF NamesApart, Names
<1>5. \A a \in NameActor : ActorOK(a)
  <2> TAKE a \in NameActor
  <2>1. change[a] = NoChange /\ change[a].step = "idle" BY DEF SlugInit, NoChange
  <2>2. \A n \in Name : nameLock[n] # a BY NamesAssumption DEF SlugInit
  <2> QED BY <2>1, <2>2
          DEF ActorOK, LocalsOK, RenameOK, RegistrationOK, InRename, InRegistration
<1>6. \A m \in Mentor : PageOK(m) BY DEF SlugInit, PageOK, NoRepeats
<1> QED BY <1>3, <1>4, <1>5, <1>6 DEF SlugInv

\* Every step stays in the invariant.
LEMMA SlugNextInv == SlugInv /\ [SlugNext]_slugVars => SlugInv'
<1> SUFFICES ASSUME SlugInv, [SlugNext]_slugVars PROVE SlugInv' OBVIOUS
<1>1. CASE UNCHANGED slugVars
  <2>1. UNCHANGED <<page, current, past, cooling, rowLock, nameLock, change, lookup>>
    BY <1>1 DEF slugVars
  <2> QED BY <2>1, LookupOnly DEF SlugInv, SlugTypeOK, Lookup
<1>2. ASSUME NEW a \in NameActor, ChangeStep(a) PROVE SlugInv'
  BY <1>2, LockMentorRowInv, LockSlugsInv, CheckRenameInv, CommitRenameInv, ClaimSlugInv,
     CheckClaimInv, InsertMentorInv DEF ChangeStep
<1>3. ASSUME NEW a \in NameActor, AbandonChange(a) PROVE SlugInv'
  BY <1>3, TxEnds DEF AbandonChange
<1> QED BY <1>1, <1>2, <1>3, RequestsInv, ProfileStepInv, VisitorStepInv DEF SlugNext

\* The invariant holds throughout.
LEMMA SlugInvariant == SlugSpec => []SlugInv
BY SlugInitInv, SlugNextInv, PTL DEF SlugSpec

-----------------------------------------------------------------------------
(* The properties.                                                         *)

\* Every variable keeps its type.
THEOREM SlugsTyped == SlugSpec => []SlugTypeOK
<1>1. SlugInv => SlugTypeOK BY DEF SlugInv
<1> QED BY <1>1, SlugInvariant, PTL

\* A name leads to one profile: never the current name or a redirect of two,
\* whatever renames, registrations, purges and restores run beside each other.
THEOREM NamesStayApart == SlugSpec => []NamesApart
<1>1. SlugInv => NamesApart BY DEF SlugInv
<1> QED BY <1>1, SlugInvariant, PTL

\* The locks of ChangeSlug and claimSlug suffice: what was found free is still
\* free at the commit, and no unique constraint is ever what stops it.
THEOREM BackstopsStayIdle == SlugSpec => []BackstopsRest
<1>1. SlugInv => BackstopsRest
  <2> SUFFICES ASSUME SlugInv PROVE BackstopsRest OBVIOUS
  <2>1. ASSUME NEW a \in NameActor, change[a].step = "commit" PROVE ~RenameConflict(change[a])
    <3>1. CommitFacts(change[a].mentor, change[a].name, change[a].old) BY <2>1, CommitRelies
    <3> QED BY <3>1 DEF CommitFacts, RenameConflict
  <2>2. ASSUME NEW a \in NameActor, change[a].step = "insert"
        PROVE  ~IsSlugTaken(change[a].name, NoMentor)
    BY <2>2 DEF SlugInv, ActorOK, RegistrationOK
  <2> QED BY <2>1, <2>2 DEF BackstopsRest
<1> QED BY <1>1, SlugInvariant, PTL

\* Steps that are no commit leave every current name that a rename about to
\* commit is about.
LEMMA OnlyCommitRenames ==
    ASSUME SlugInv, SlugNext, NEW a \in NameActor, NEW m \in Mentor,
           change[a].step = "commit", change[a].mentor = m, current'[m] # current[m]
    PROVE  CommitRename(a)
<1>1. rowLock[m] = a /\ page[m] = "live"
  BY DEF SlugInv, ActorOK, RenameOK, InRename
<1>2. ASSUME NEW b \in NameActor, CommitRename(b) PROVE b = a
  <2>1. CASE change[b].mentor = m
    BY <1>1, <1>2, <2>1 DEF CommitRename, SlugInv, ActorOK, RenameOK, InRename
  <2>2. CASE change[b].mentor # m BY <1>2, <2>2 DEF CommitRename, SlugInv, SlugTypeOK
  <2> QED BY <2>1, <2>2
<1>3. ASSUME NEW b \in NameActor, InsertMentor(b) PROVE FALSE
  <2>1. page[change[b].mentor] = "absent"
    BY <1>3 DEF InsertMentor, SlugInv, ActorOK, RegistrationOK, InRegistration
  <2>2. change[b].mentor # m BY <1>1, <2>1
  <2> QED BY <1>3, <2>2 DEF InsertMentor, SlugInv, SlugTypeOK
<1>4. ASSUME NEW o \in Mentor, ProfileStep(o) PROVE FALSE
  <2>1. CASE PurgeRow(o)
    <3>1. page[o] = "deleted" /\ current' = [current EXCEPT ![o] = NoName] BY <2>1 DEF PurgeRow
    <3> QED BY <1>1, <3>1 DEF SlugInv, SlugTypeOK
  <2> QED BY <1>4, <2>1 DEF ProfileStep, SoftDelete, RestoreDeleted, CooldownPasses
<1>5. ASSUME NEW b \in NameActor, ChangeRequest(b) \/ AbandonChange(b) PROVE FALSE
  BY <1>5 DEF ChangeRequest, RequestRename, RequestRegistration, AbandonChange
<1>6. ASSUME NEW b \in NameActor, ChangeStep(b) PROVE b = a /\ CommitRename(a)
  BY <1>2, <1>3, <1>6
     DEF ChangeStep, LockMentorRow, LockSlugs, CheckRename, ClaimSlug, CheckClaim
<1>7. ASSUME NEW v \in Visitor, VisitorStep(v) PROVE FALSE
  BY <1>7 DEF VisitorStep, BeginLookup, LookupCurrent, LookupRedirect, LookupProfile
<1> QED BY <1>4, <1>5, <1>6, <1>7 DEF SlugNext

\* A mentor's rename commits only outside the cooldown and starts a new one;
\* an admin's leaves it as it is.
THEOREM CooldownStays == SlugSpec => CooldownKept
<1> DEFINE Kept == \A a \in NameActor, m \in Mentor :
          change[a].step = "commit" /\ change[a].mentor = m /\ current'[m] # current[m] =>
              IF change[a].by = "mentor" THEN ~cooling[m] /\ cooling'[m]
                                         ELSE cooling'[m] = cooling[m]
<1>1. SlugInv /\ [SlugNext]_slugVars => [Kept]_slugVars
  <2> SUFFICES ASSUME SlugInv, SlugNext, NEW a \in NameActor, NEW m \in Mentor,
                      change[a].step = "commit", change[a].mentor = m, current'[m] # current[m]
               PROVE  IF change[a].by = "mentor" THEN ~cooling[m] /\ cooling'[m]
                                                 ELSE cooling'[m] = cooling[m]
    OBVIOUS
  <2>1. CommitRename(a) BY OnlyCommitRenames
  <2>2. cooling' = [cooling EXCEPT ![m] = cooling[m] \/ change[a].by = "mentor"]
    BY <2>1 DEF CommitRename
  <2>3. cooling'[m] = (cooling[m] \/ change[a].by = "mentor")
    BY <2>2 DEF SlugInv, SlugTypeOK
  <2>4. change[a].by = "mentor" => ~cooling[m]
    BY DEF SlugInv, ActorOK, RenameOK, InRename
  <2> QED BY <2>3, <2>4 DEF SlugInv, SlugTypeOK
<1>2. SlugSpec => [][Kept]_slugVars BY <1>1, SlugInvariant, PTL DEF SlugSpec
<1> QED BY <1>2 DEF CooldownKept

-----------------------------------------------------------------------------
(* The registry implements the namespace.                                  *)

names == [m \in Mentor |-> Names(m)]

\* A step that leaves current names and redirects alone changes no name.
LEMMA SameNames ==
    ASSUME UNCHANGED <<current, past>>
    PROVE  UNCHANGED names
BY DEF names, Names

\* A profile trades its names for some of them, and a free one at most.
LEMMA NamespaceStep ==
    ASSUME NEW m \in Mentor, NEW N, names' = [names EXCEPT ![m] = N],
           \/ N \subseteq Names(m)
           \/ \E n \in Name : n \in N /\ N \subseteq Names(m) \cup {n}
                              /\ \A o \in Mentor : n \notin Names(o)
    PROVE  Namespace!Next
<1>0. \A o \in Mentor : names[o] = Names(o) BY DEF names
<1>1. CASE N \subseteq Names(m)
  <2>1. N \in SUBSET names[m] BY <1>0, <1>1
  <2>2. Namespace!Keep(m, N) BY DEF Namespace!Keep, names
  <2> QED BY <2>1, <2>2 DEF Namespace!Next, names
<1>2. ASSUME NEW n \in Name, n \in N, N \subseteq Names(m) \cup {n}, \A o \in Mentor : n \notin Names(o)
      PROVE  Namespace!Next
  <2>1. N \ {n} \in SUBSET names[m] /\ N = (N \ {n}) \cup {n} BY <1>0, <1>2
  <2>2. Namespace!Free(n) BY <1>2 DEF Namespace!Free
  <2>3. names' = [names EXCEPT ![m] = (N \ {n}) \cup {n}] BY <2>1
  <2>4. Namespace!Take(m, n, N \ {n}) BY <2>2, <2>3 DEF Namespace!Take, names
  <2> QED BY <2>1, <2>4 DEF Namespace!Next, names
<1> QED BY <1>1, <1>2

\* A rename takes a free name or one of the profile's own.
LEMMA CommitRenameStep ==
    ASSUME SlugInv, NEW a \in NameActor, CommitRename(a)
    PROVE  Namespace!Next \/ UNCHANGED names
<1>1. PICK m, n, old : m = change[a].mentor /\ n = change[a].name /\ old = change[a].old
  OBVIOUS
<1>2. CommitFacts(m, n, old) BY <1>1, CommitRelies DEF CommitRename
<1>3. CASE RenameConflict(change[a]) BY <1>3, SameNames DEF CommitRename
<1>4. CASE ~RenameConflict(change[a])
  <2>1. PICK left : left = Retire(m, n, old) OBVIOUS
  <2>2. /\ current' = [current EXCEPT ![m] = n] /\ past' = [past EXCEPT ![m] = left]
    BY <1>1, <1>4, <2>1 DEF CommitRename
  <2>3. Elems(left) \subseteq (Elems(past[m]) \ {n}) \cup {old}
    BY <1>2, <2>1, RetireKeepsNewest DEF CommitFacts
  <2>4. n # NoName /\ old # NoName BY <1>2, NoNameIsNone DEF CommitFacts
  <2>5. PICK N : N = Elems(left) \cup {n} OBVIOUS
  <2>6. Names(m)' = N /\ \A o \in Mentor \ {m} : Names(o)' = Names(o)
    BY <1>2, <2>2, <2>4, <2>5 DEF SlugInv, SlugTypeOK, CommitFacts, Names
  <2>7. names' = [names EXCEPT ![m] = N] BY <2>6 DEF names
  <2>8. N \subseteq Names(m) \cup {n} /\ n \in N BY <1>2, <2>3, <2>4, <2>5 DEF Names, CommitFacts
  <2>9. \A o \in Mentor \ {m} : n \notin Names(o) BY <1>2 DEF CommitFacts, Names
  <2>10. CASE n \in Names(m) BY <1>2, <2>7, <2>8, <2>10, NamespaceStep DEF CommitFacts
  <2>11. CASE n \notin Names(m) BY <1>2, <2>7, <2>8, <2>9, <2>11, NamespaceStep DEF CommitFacts
  <2> QED BY <2>10, <2>11
<1> QED BY <1>3, <1>4

\* A registration takes a free name.
LEMMA InsertMentorStep ==
    ASSUME SlugInv, NEW a \in NameActor, InsertMentor(a)
    PROVE  Namespace!Next \/ UNCHANGED names
<1>1. ActorOK(a) /\ change[a].step = "insert" BY DEF SlugInv, InsertMentor
<1>2. PICK m \in Mentor : m = change[a].mentor BY <1>1 DEF ActorOK, LocalsOK
<1>3. PICK n \in Name : n = change[a].name BY <1>1 DEF ActorOK, LocalsOK
<1>4. CASE \E o \in Mentor : current[o] = change[a].name BY <1>4, SameNames DEF InsertMentor
<1>5. CASE ~\E o \in Mentor : current[o] = change[a].name
  <2>1. current' = [current EXCEPT ![m] = n] /\ UNCHANGED past
    BY <1>2, <1>3, <1>5 DEF InsertMentor
  <2>2. page[m] = "absent" /\ ~IsSlugTaken(n, NoMentor)
    BY <1>1, <1>2, <1>3 DEF ActorOK, RegistrationOK, InRegistration
  <2>3. current[m] = NoName /\ past[m] = <<>> BY <2>2 DEF SlugInv, PageOK
  <2>4. Elems(<<>>) = {} /\ n # NoName BY NoNameIsNone DEF Elems
  <2>5. Names(m)' = {n} /\ \A o \in Mentor \ {m} : Names(o)' = Names(o)
    BY <2>1, <2>3, <2>4 DEF SlugInv, SlugTypeOK, Names
  <2>6. names' = [names EXCEPT ![m] = {n}] BY <2>5 DEF names
  <2>7. \A o \in Mentor : n \notin Names(o)
    BY <2>2, NamesAssumption DEF IsSlugTaken, Names
  <2> QED BY <2>6, <2>7, NamespaceStep
<1> QED BY <1>4, <1>5

\* A purge gives every name up.
LEMMA PurgeRowStep ==
    ASSUME SlugInv, NEW m \in Mentor, PurgeRow(m)
    PROVE  Namespace!Next
<1>1. current' = [current EXCEPT ![m] = NoName] /\ past' = [past EXCEPT ![m] = <<>>]
  BY DEF PurgeRow
<1>2. Elems(<<>>) = {} BY DEF Elems
<1>3. Names(m)' = {} /\ \A o \in Mentor \ {m} : Names(o)' = Names(o)
  BY <1>1, <1>2 DEF SlugInv, SlugTypeOK, Names
<1>4. names' = [names EXCEPT ![m] = {}] BY <1>3 DEF names
<1> QED BY <1>4, NamespaceStep

\* Every step of the registry is, seen from outside, a name let go, a free
\* name taken, or nothing.
THEOREM RefinesNamespace == SlugSpec => ImplementsNamespace
<1>1. SlugInit => Namespace!Init
  <2> SUFFICES ASSUME SlugInit PROVE \A m \in Mentor : Names(m) = {}
    BY DEF Namespace!Init
  <2>1. Elems(<<>>) = {} BY DEF Elems
  <2> QED BY <2>1 DEF SlugInit, Names
<1>2. SlugInv /\ [SlugNext]_slugVars => [Namespace!Next]_names
  <2> SUFFICES ASSUME SlugInv, [SlugNext]_slugVars PROVE Namespace!Next \/ UNCHANGED names
    OBVIOUS
  <2>1. CASE UNCHANGED slugVars BY <2>1, SameNames DEF slugVars
  <2>2. ASSUME NEW a \in NameActor, ChangeRequest(a) \/ AbandonChange(a) PROVE UNCHANGED names
    BY <2>2, SameNames DEF ChangeRequest, RequestRename, RequestRegistration, AbandonChange
  <2>3. ASSUME NEW a \in NameActor, ChangeStep(a) PROVE Namespace!Next \/ UNCHANGED names
    BY <2>3, SameNames, CommitRenameStep, InsertMentorStep
       DEF ChangeStep, LockMentorRow, LockSlugs, CheckRename, ClaimSlug, CheckClaim
  <2>4. ASSUME NEW m \in Mentor, ProfileStep(m) PROVE Namespace!Next \/ UNCHANGED names
    BY <2>4, SameNames, PurgeRowStep
       DEF ProfileStep, SoftDelete, RestoreDeleted, CooldownPasses
  <2>5. ASSUME NEW v \in Visitor, VisitorStep(v) PROVE UNCHANGED names
    BY <2>5, SameNames
       DEF VisitorStep, BeginLookup, LookupCurrent, LookupRedirect, LookupProfile
  <2> QED BY <2>1, <2>2, <2>3, <2>4, <2>5 DEF SlugNext
<1>3. UNCHANGED names => UNCHANGED [m \in Mentor |-> Names(m)] BY DEF names
<1> QED BY <1>1, <1>2, <1>3, SlugInvariant, PTL
        DEF SlugSpec, ImplementsNamespace, Namespace!Spec, names

-----------------------------------------------------------------------------
(* Lookups.                                                                *)

\* A lookup that missed nothing so far still finds the profile: by some name
\* before the first read, by a redirect before the second, live before the third.
LookupOK(v) ==
    LET q == lookup[v] IN
    /\ q.step = "current" /\ ~q.gap => \E m \in Mentor : LeadsTo(q.name, m, page, current, past)
    /\ q.step = "redirect" /\ ~q.gap => \E m \in Mentor : page[m] = "live" /\ q.name \in Elems(past[m])
    /\ q.step = "profile" /\ ~q.gap => /\ q.found \in Mentor /\ page[q.found] = "live"
                                       /\ q.name \in Elems(past[q.found])
    /\ q.step = "miss" => q.gap

LookupInv == \A v \in Visitor : LookupOK(v)

\* Who leads visitors somewhere has the name.
LEMMA LeaderHasName ==
    ASSUME SlugInv, NEW n, NEW m \in Mentor, LeadsTo(n, m, page, current, past)
    PROVE  n \in Names(m)
<1>1. current[m] # NoName BY NoNameIsNone DEF SlugInv, PageOK, LeadsTo
<1> QED BY <1>1 DEF LeadsTo, Names

\* New names are free ones, in every step of the registry.
LEMMA NewNamesWereFree ==
    ASSUME Namespace!Next \/ UNCHANGED names
    PROVE  \A m \in Mentor : \A n \in Names(m)' : n \in Names(m) \/ \A o \in Mentor : n \notin Names(o)
<1>0. /\ \A o \in Mentor : names[o] = Names(o) /\ names'[o] = Names(o)'
      /\ DOMAIN names = Mentor
  BY DEF names
<1>1. CASE UNCHANGED names BY <1>0, <1>1
<1>2. CASE Namespace!Next
  <2>0. PICK m \in Mentor : \E kept \in SUBSET names[m] :
            \/ names' = [names EXCEPT ![m] = kept]
            \/ \E n \in Name : /\ \A o \in Mentor : n \notin names[o]
                               /\ names' = [names EXCEPT ![m] = kept \cup {n}]
    BY <1>2 DEF Namespace!Next, Namespace!Keep, Namespace!Take, Namespace!Free, names
  <2>1. PICK kept \in SUBSET names[m] :
            \/ names' = [names EXCEPT ![m] = kept]
            \/ \E n \in Name : /\ \A o \in Mentor : n \notin names[o]
                               /\ names' = [names EXCEPT ![m] = kept \cup {n}]
    BY <2>0
  <2>2. CASE names' = [names EXCEPT ![m] = kept]
    <3> HIDE DEF names
    <3> QED BY <1>0, <2>2
  <2>3. ASSUME NEW n \in Name, \A o \in Mentor : n \notin names[o],
               names' = [names EXCEPT ![m] = kept \cup {n}]
        PROVE  \A x \in Mentor : \A y \in Names(x)' : y \in Names(x) \/ \A o \in Mentor : y \notin Names(o)
    <3> HIDE DEF names
    <3> QED BY <1>0, <2>3
  <2> QED BY <2>1, <2>2, <2>3
<1> QED BY <1>1, <1>2

\* What is watched: a name that led somewhere and is not found any more leaves
\* a gap.
LEMMA WatchKeeps ==
    ASSUME SlugInv, SlugInv', LookupInv, Watch(page', current', past'),
           \A m \in Mentor : \A n \in Names(m)' : n \in Names(m) \/ \A o \in Mentor : n \notin Names(o)
    PROVE  LookupInv'
<1> SUFFICES ASSUME NEW v \in Visitor PROVE LookupOK(v)'
  BY DEF LookupInv
<1> DEFINE q == lookup[v]
<1>1. LookupOK(v) BY DEF LookupInv
<1>2. CASE q.step \notin {"current", "redirect", "profile"}
  <2>1. lookup'[v] = q BY <1>2 DEF Watch
  <2> QED BY <1>1, <1>2, <2>1 DEF LookupOK
<1>3. CASE q.step \in {"current", "redirect", "profile"}
  <2>1. /\ lookup'[v].step = q.step /\ lookup'[v].name = q.name /\ lookup'[v].found = q.found
        /\ ~lookup'[v].gap => /\ ~q.gap
                              /\ \E m \in Mentor : LeadsTo(q.name, m, page', current', past')
                              /\ \A m \in Mentor : q.name \in Elems(past[m]) => current'[m] # q.name
    BY <1>3 DEF Watch, SlugInv, SlugTypeOK
  <2> SUFFICES ASSUME ~lookup'[v].gap PROVE LookupOK(v)'
    BY <1>3, <2>1 DEF LookupOK
  <2>2. PICK m \in Mentor : LeadsTo(q.name, m, page', current', past') BY <2>1
  <2>3. CASE q.step = "current" BY <2>1, <2>2, <2>3 DEF LookupOK, LeadsTo
  <2>4. CASE q.step # "current"
    <3>1. PICK o \in Mentor : /\ page[o] = "live" /\ q.name \in Elems(past[o])
                              /\ q.step = "profile" => o = q.found
      BY <1>1, <1>3, <2>1, <2>4 DEF LookupOK
    <3>2. q.name \in Names(m)'
      <4>1. current'[m] # NoName BY <2>2, NoNameIsNone DEF SlugInv, PageOK, LeadsTo
      <4> QED BY <2>2, <4>1 DEF LeadsTo, Names
    <3>3. q.name \in Names(o) BY <3>1 DEF Names
    <3>4. m = o
      <4>1. q.name \in Names(m) BY <3>2, <3>3
      <4> QED BY <3>3, <4>1 DEF SlugInv, NamesApart
    <3>5. page'[o] = "live" /\ q.name \in Elems(past'[o]) BY <2>1, <2>2, <3>1, <3>4 DEF LeadsTo
    <3> QED BY <1>3, <2>1, <2>4, <3>1, <3>5 DEF LookupOK
  <2> QED BY <2>3, <2>4
<1> QED BY <1>2, <1>3

\* Steps that nobody watches take nothing from a live profile.
LEMMA UnwatchedKeeps ==
    ASSUME LookupInv, UNCHANGED lookup,
           \A m \in Mentor : page[m] = "live" =>
              page'[m] = "live" /\ current'[m] = current[m] /\ past'[m] = past[m]
    PROVE  LookupInv'
<1> SUFFICES ASSUME NEW v \in Visitor PROVE LookupOK(v)'
  BY DEF LookupInv
<1>1. LookupOK(v) BY DEF LookupInv
<1> QED BY <1>1 DEF LookupOK, LeadsTo

\* The reads of a lookup find what the invariant promises.
LEMMA VisitorsKeep ==
    ASSUME SlugInv, LookupInv, NEW v \in Visitor, VisitorStep(v)
    PROVE  LookupInv'
<1>1. UNCHANGED <<page, current, past>> /\ \A w \in Visitor \ {v} : lookup'[w] = lookup[w]
  BY DEF VisitorStep, BeginLookup, LookupCurrent, LookupRedirect, LookupProfile, Answer, SlugInv, SlugTypeOK
<1>2. \A w \in Visitor \ {v} : LookupOK(w)' BY <1>1 DEF LookupInv, LookupOK, LeadsTo
<1> DEFINE q == lookup[v]
<1>3. LookupOK(v) BY DEF LookupInv
<1>4. lookup \in [Visitor ->
          [step : {"idle", "current", "redirect", "profile", "hit", "miss"},
           name : Name \cup {NoName}, found : Mentor \cup {NoMentor}, gap : BOOLEAN]]
  BY DEF SlugInv, SlugTypeOK
<1>5. LookupOK(v)'
  <2>1. ASSUME NEW n \in Name, BeginLookup(v, n) PROVE LookupOK(v)'
    <3>1. /\ lookup'[v].step = "current" /\ lookup'[v].name = n
          /\ lookup'[v].gap = \A m \in Mentor : ~LeadsTo(n, m, page, current, past)
      BY <2>1, <1>4 DEF BeginLookup, NoLookup
    <3> QED BY <1>1, <3>1 DEF LookupOK, LeadsTo
  <2>2. CASE LookupCurrent(v)
    <3>1. q.step = "current" BY <2>2 DEF LookupCurrent
    <3>2. ASSUME NEW m \in Mentor, current[m] = q.name, Answer(v, m) PROVE LookupOK(v)'
      <4>1. /\ lookup'[v].step = IF page[m] = "live" THEN "hit" ELSE "miss"
            /\ lookup'[v].gap = q.gap
        BY <3>2, <1>4 DEF Answer
      <4>2. CASE page[m] = "live" BY <4>1, <4>2 DEF LookupOK
      <4>3. CASE page[m] # "live"
        <5>1. SUFFICES ASSUME ~q.gap PROVE FALSE BY <4>1, <4>3 DEF LookupOK
        <5>2. PICK o \in Mentor : LeadsTo(q.name, o, page, current, past) BY <1>3, <3>1, <5>1 DEF LookupOK
        <5>3. q.name \in Names(o) BY <5>2, LeaderHasName
        <5>4. q.name # NoName
          <6>1. o \in Mentor /\ page[o] = "live" BY <5>2 DEF LeadsTo
          <6>2. current[o] # NoName /\ past[o] \in Seq(Name)
            BY <6>1, NoNameIsNone DEF SlugInv, PageOK, SlugTypeOK
          <6>3. NoName \notin Elems(past[o]) BY <6>2, NoNameIsNone DEF Elems
          <6> QED BY <5>3, <6>2, <6>3 DEF Names
        <5>5. q.name \in Names(m) BY <3>2, <5>4 DEF Names
        <5>6. m = o BY <5>3, <5>5 DEF SlugInv, NamesApart
        <5> QED BY <4>3, <5>2, <5>6 DEF LeadsTo
      <4> QED BY <4>2, <4>3
    <3>3. ASSUME \A m \in Mentor : current[m] # q.name, lookup' = [lookup EXCEPT ![v].step = "redirect"]
          PROVE  LookupOK(v)'
      <4>1. /\ lookup'[v].step = "redirect" /\ lookup'[v].gap = q.gap /\ lookup'[v].name = q.name
        BY <3>3, <1>4
      <4> QED BY <1>1, <1>3, <3>1, <3>3, <4>1 DEF LookupOK, LeadsTo
    <3> QED BY <2>2, <3>2, <3>3 DEF LookupCurrent
  <2>3. CASE LookupRedirect(v)
    <3>1. q.step = "redirect" BY <2>3 DEF LookupRedirect
    <3>2. ASSUME NEW m \in Mentor, q.name \in Elems(past[m]),
                 lookup' = [lookup EXCEPT ![v].step = "profile", ![v].found = m]
          PROVE  LookupOK(v)'
      <4>1. /\ lookup'[v].step = "profile" /\ lookup'[v].gap = q.gap /\ lookup'[v].name = q.name
            /\ lookup'[v].found = m
        BY <3>2, <1>4
      <4>2. ~q.gap => page[m] = "live"
        <5> SUFFICES ASSUME ~q.gap PROVE page[m] = "live" OBVIOUS
        <5>1. PICK o \in Mentor : page[o] = "live" /\ q.name \in Elems(past[o])
          BY <1>3, <3>1 DEF LookupOK
        <5>2. q.name \in Names(o) /\ q.name \in Names(m) BY <3>2, <5>1 DEF Names
        <5>3. o = m BY <5>2 DEF SlugInv, NamesApart
        <5> QED BY <5>1, <5>3
      <4> QED BY <1>1, <3>2, <4>1, <4>2 DEF LookupOK
    <3>3. ASSUME \A m \in Mentor : q.name \notin Elems(past[m]), lookup' = [lookup EXCEPT ![v].step = "miss"]
          PROVE  LookupOK(v)'
      <4>1. lookup'[v].step = "miss" /\ lookup'[v].gap = q.gap BY <3>3, <1>4
      <4> QED BY <1>3, <3>1, <3>3, <4>1 DEF LookupOK
    <3> QED BY <2>3, <3>2, <3>3 DEF LookupRedirect
  <2>4. CASE LookupProfile(v)
    <3>1. /\ q.step = "profile" /\ lookup'[v].gap = q.gap
          /\ lookup'[v].step = IF page[q.found] = "live" THEN "hit" ELSE "miss"
      BY <2>4, <1>4 DEF LookupProfile, Answer
    <3> QED BY <1>3, <3>1 DEF LookupOK
  <2> QED BY <2>1, <2>2, <2>3, <2>4 DEF VisitorStep
<1> QED BY <1>2, <1>5 DEF LookupInv

\* Page not found is never said of a name that led to a live profile all the
\* while, unless its owner took it back between the two reads.
THEOREM MissesAreJustified == SlugSpec => []MissIsJustified
<1>1. SlugInit => LookupInv
  BY DEF SlugInit, NoLookup, LookupInv, LookupOK
<1>2. SlugInv /\ SlugInv' /\ LookupInv /\ [SlugNext]_slugVars => LookupInv'
  <2> SUFFICES ASSUME SlugInv, SlugInv', LookupInv, [SlugNext]_slugVars PROVE LookupInv'
    OBVIOUS
  <2>1. CASE UNCHANGED <<page, current, past, lookup>> BY <2>1, UnwatchedKeeps
  <2>2. ASSUME NEW a \in NameActor, CommitRename(a) PROVE LookupInv'
    <3>1. CASE RenameConflict(change[a]) BY <2>1, <2>2, <3>1 DEF CommitRename
    <3>2. CASE ~RenameConflict(change[a])
      <4>1. Watch(page, current', past') /\ page' = page BY <2>2, <3>2 DEF CommitRename
      <4>2. Watch(page', current', past') BY <4>1
      <4> QED BY <2>2, <4>2, CommitRenameStep, NewNamesWereFree, WatchKeeps
    <3> QED BY <3>1, <3>2
  <2>3. ASSUME NEW a \in NameActor, InsertMentor(a) PROVE LookupInv'
    <3>1. CASE \E o \in Mentor : current[o] = change[a].name BY <2>1, <2>3, <3>1 DEF InsertMentor
    <3>2. CASE ~\E o \in Mentor : current[o] = change[a].name
      <4>1. Watch(page', current', past) /\ past' = past BY <2>3, <3>2 DEF InsertMentor
      <4>2. Watch(page', current', past') BY <4>1
      <4> QED BY <2>3, <4>2, InsertMentorStep, NewNamesWereFree, WatchKeeps
    <3> QED BY <3>1, <3>2
  <2>4. ASSUME NEW m \in Mentor, SoftDelete(m) PROVE LookupInv'
    <3>1. Watch(page', current, past) /\ UNCHANGED <<current, past>> BY <2>4 DEF SoftDelete
    <3>2. Watch(page', current', past') BY <3>1
    <3> QED BY <3>1, <3>2, SameNames, NewNamesWereFree, WatchKeeps
  <2>5. ASSUME NEW m \in Mentor, RestoreDeleted(m) \/ PurgeRow(m) PROVE LookupInv'
    BY <2>5, UnwatchedKeeps DEF RestoreDeleted, PurgeRow, SlugInv, SlugTypeOK
  <2>6. ASSUME NEW m \in Mentor, CooldownPasses(m) PROVE LookupInv'
    BY <2>1, <2>6 DEF CooldownPasses
  <2>7. ASSUME NEW v \in Visitor, VisitorStep(v) PROVE LookupInv' BY <2>7, VisitorsKeep
  <2>8. ASSUME NEW a \in NameActor, ChangeRequest(a) \/ AbandonChange(a) PROVE LookupInv'
    BY <2>1, <2>8 DEF ChangeRequest, RequestRename, RequestRegistration, AbandonChange
  <2>9. ASSUME NEW a \in NameActor, ChangeStep(a) PROVE LookupInv'
    BY <2>1, <2>2, <2>3, <2>9
       DEF ChangeStep, LockMentorRow, LockSlugs, CheckRename, ClaimSlug, CheckClaim
  <2>10. CASE UNCHANGED slugVars BY <2>1, <2>10 DEF slugVars
  <2> QED BY <2>4, <2>5, <2>6, <2>7, <2>8, <2>9, <2>10 DEF SlugNext, ProfileStep
<1>3. LookupInv => MissIsJustified BY DEF LookupInv, LookupOK, MissIsJustified
<1> QED BY <1>1, <1>2, <1>3, SlugInvariant, PTL DEF SlugSpec

-----------------------------------------------------------------------------
(* Nobody waits in a circle.                                               *)

\* The row comes before the names, and the names in the order they sort: what an
\* actor holds sorts before what it still wants.
InOrder(a) ==
    LET c == change[a] IN
    /\ \A m \in Mentor : rowLock[m] = a => c.step \in InRename
    /\ \A n \in Name : nameLock[n] = a =>
          /\ c.step \notin {"idle", "row"}
          /\ c.step = "names" => \A o \in {c.old, c.name} : nameLock[o] # a => n < o
          /\ c.step \in InRename => n \in {c.old, c.name}
          /\ c.step = "claim" => n < c.name
          /\ c.step \in {"taken", "insert"} => n <= c.name

OrderInv == \A a \in NameActor : InOrder(a)

\* Steps of others neither give an actor a lock nor take one.
Uninvolved(b) ==
    /\ change'[b] = change[b]
    /\ \A n \in Name : nameLock'[n] = b <=> nameLock[n] = b
    /\ \A m \in Mentor : rowLock'[m] = b => rowLock[m] = b

\* What others do leaves an actor in order.
LEMMA UninvolvedInOrder ==
    ASSUME SlugInv, NEW b \in NameActor, InOrder(b), Uninvolved(b)
    PROVE  InOrder(b)'
<1>1. change[b].step = "names" => change[b].old \in Name /\ change[b].name \in Name
  BY DEF SlugInv, ActorOK, LocalsOK, InRename
<1> QED BY <1>1 DEF InOrder, Uninvolved

\* Whoever ends holds nothing.
LEMMA EndsInOrder ==
    ASSUME SlugInv, NEW a \in NameActor, EndTx(a)
    PROVE  InOrder(a)' /\ \A b \in NameActor \ {a} : Uninvolved(b)
<1>1. (\A n \in Name : nameLock'[n] # a) /\ (\A m \in Mentor : rowLock'[m] # a)
  BY NamesAssumption DEF EndTx
<1>2. \A b \in NameActor \ {a}, m \in Mentor : rowLock'[m] = b => rowLock[m] = b
  BY NamesAssumption DEF EndTx
<1>3. \A b \in NameActor \ {a} :
          change'[b] = change[b] /\ \A n \in Name : nameLock'[n] = b <=> nameLock[n] = b
  BY EndTxEffect
<1> QED BY <1>1, <1>2, <1>3 DEF InOrder, Uninvolved

\* A statement that takes no lock.
LEMMA LocklessStep ==
    ASSUME SlugInv, NEW a \in NameActor, UNCHANGED <<rowLock, nameLock>>,
           \A b \in NameActor \ {a} : change'[b] = change[b]
    PROVE  \A b \in NameActor \ {a} : Uninvolved(b)
BY DEF Uninvolved

\* The least name that is wanted is locked, so those held sort before the rest.
LEMMA LockSlugsInOrder ==
    ASSUME SlugInv, NEW a \in NameActor, InOrder(a), LockSlugs(a)
    PROVE  InOrder(a)' /\ \A b \in NameActor \ {a} : Uninvolved(b)
<1> DEFINE c == change[a]
           n == NextToLock(a)
           next == IF \A o \in {c.old, c.name} : nameLock'[o] = a THEN "check" ELSE "names"
<1>1. c.step = "names" BY DEF LockSlugs
<1>2. c.old \in Name /\ c.name \in Name /\ c.mentor \in Mentor
  BY <1>1 DEF SlugInv, ActorOK, LocalsOK, InRename
<1>3. n \in Wanted(a) /\ n \in Name /\ \A p \in Wanted(a) : n <= p
  BY <1>1, NextToLockIsLeast
<1>4. /\ nameLock[n] = NoActor /\ nameLock' = [nameLock EXCEPT ![n] = a]
      /\ change' = [change EXCEPT ![a].step = next] /\ rowLock' = rowLock
  BY DEF LockSlugs
<1>5. PICK to \in {"names", "check"} : to = next OBVIOUS
<1>5a. to = "names" => \E o \in {c.old, c.name} : nameLock'[o] # a BY <1>5
<1> HIDE DEF n, next
<1>6. /\ change'[a].step = to /\ change'[a].name = c.name /\ change'[a].old = c.old
      /\ \A b \in NameActor \ {a} : change'[b] = change[b]
  BY <1>4, <1>5, NewStep
<1>7. /\ nameLock'[n] = a /\ \A o \in Name \ {n} : nameLock'[o] = nameLock[o]
      /\ \A b \in NameActor \ {a}, o \in Name : nameLock'[o] = b <=> nameLock[o] = b
  BY <1>3, <1>4, TakesLock
<1>8. InOrder(a)'
  <2>1. \A m \in Mentor : rowLock'[m] = a => to \in InRename
    BY <1>5 DEF InRename
  <2>2. ASSUME NEW o \in Name, nameLock'[o] = a PROVE o \in {c.old, c.name}
    BY <1>1, <1>3, <1>7, <2>2 DEF InOrder, InRename, Wanted
  <2>3. ASSUME NEW o \in Name, nameLock'[o] = a, NEW p \in {c.old, c.name}, nameLock'[p] # a
        PROVE  o < p
    <3>1. p \in Wanted(a) /\ p # n BY <1>2, <1>7, <2>3 DEF Wanted
    <3>2. n < p BY <1>2, <1>3, <2>3, <3>1, NamesAssumption DEF Name
    <3>3. CASE o = n BY <3>2, <3>3
    <3>4. CASE o # n BY <1>1, <1>7, <2>3, <3>1, <3>4 DEF InOrder, Wanted
    <3> QED BY <3>3, <3>4
  <2> QED BY <1>5, <1>6, <2>1, <2>2, <2>3 DEF InOrder, InRename
<1>9. \A b \in NameActor \ {a} : Uninvolved(b) BY <1>4, <1>6, <1>7 DEF Uninvolved
<1> QED BY <1>8, <1>9

\* The row is locked by a rename that holds nothing.
LEMMA LockMentorRowInOrder ==
    ASSUME SlugInv, NEW a \in NameActor, InOrder(a), LockMentorRow(a)
    PROVE  InOrder(a)' /\ \A b \in NameActor \ {a} : Uninvolved(b)
<1>1. PICK m \in Mentor : m = change[a].mentor
  BY DEF LockMentorRow, SlugInv, ActorOK, LocalsOK
<1>2. CASE page[m] = "live" /\ current[m] # change[a].name
  <2>1. /\ change[a].step = "row" /\ rowLock' = [rowLock EXCEPT ![m] = a] /\ UNCHANGED nameLock
        /\ change' = [change EXCEPT ![a].step = "names", ![a].old = current[m], ![a].cool = cooling[m]]
    BY <1>1, <1>2 DEF LockMentorRow
  <2>2. change[a] \in Change /\ change \in [NameActor -> Change] /\ rowLock \in [Mentor -> NameActor \cup {NoActor}]
    BY DEF SlugInv, SlugTypeOK, Change
  <2>3. change'[a].step = "names" /\ \A b \in NameActor \ {a} : change'[b] = change[b]
    BY <2>1, <2>2 DEF Change
  <2>4. \A n \in Name : nameLock'[n] # a
    BY <2>1 DEF SlugInv, ActorOK, RenameOK
  <2>5. InOrder(a)' BY <2>3, <2>4 DEF InOrder, InRename
  <2>6. \A b \in NameActor \ {a}, o \in Mentor : rowLock'[o] = b => rowLock[o] = b
    BY <2>1, <2>2
  <2> QED BY <2>1, <2>3, <2>5, <2>6 DEF Uninvolved
<1>3. CASE ~(page[m] = "live" /\ current[m] # change[a].name)
  BY <1>1, <1>3, EndsInOrder DEF LockMentorRow
<1> QED BY <1>2, <1>3

\* A registration goes up from suffix to suffix.
LEMMA ClaimsInOrder ==
    ASSUME SlugInv, NEW a \in NameActor, InOrder(a), ClaimSlug(a) \/ CheckClaim(a)
    PROVE  InOrder(a)' /\ \A b \in NameActor \ {a} : Uninvolved(b)
<1> DEFINE c == change[a]
<1>0. change \in [NameActor -> Change] /\ c \in Change BY DEF SlugInv, SlugTypeOK, Change
<1>1. c.name \in Name /\ c.step \in {"claim", "taken"}
  BY DEF ClaimSlug, CheckClaim, SlugInv, ActorOK, LocalsOK
<1>2. Name \subseteq Int BY NamesAssumption DEF Name
<1>3. CASE ClaimSlug(a)
  <2>1. PICK n \in Name : n = c.name BY <1>1
  <2>2. /\ c.step = "claim" /\ nameLock[n] = NoActor /\ rowLock' = rowLock
        /\ nameLock' = [nameLock EXCEPT ![n] = a]
        /\ change' = [change EXCEPT ![a].step = "taken"]
    BY <1>3, <2>1 DEF ClaimSlug
  <2>3. /\ change'[a].step = "taken" /\ change'[a].name = n
        /\ \A b \in NameActor \ {a} : change'[b] = change[b]
    BY <2>1, <2>2, NewStep
  <2>4. /\ nameLock'[n] = a /\ \A o \in Name \ {n} : nameLock'[o] = nameLock[o]
        /\ \A b \in NameActor \ {a}, o \in Name : nameLock'[o] = b <=> nameLock[o] = b
    BY <2>2, TakesLock
  <2>5. \A o \in Name : nameLock'[o] = a => o <= n
    BY <1>2, <2>1, <2>2, <2>4 DEF InOrder
  <2>6. \A m \in Mentor : rowLock'[m] # a BY <2>2 DEF InOrder, InRename
  <2>7. InOrder(a)' BY <2>3, <2>5, <2>6 DEF InOrder, InRename
  <2> QED BY <2>2, <2>3, <2>4, <2>7 DEF Uninvolved
<1>4. CASE CheckClaim(a)
  <2>0. c.step = "taken" /\ (\A m \in Mentor : rowLock[m] # a) /\ \A n \in Name : nameLock[n] = a => n <= c.name
    BY <1>4 DEF CheckClaim, InOrder, InRename
  <2>1. CASE EndTx(a) BY <2>1, EndsInOrder
  <2>2. CASE change' = [change EXCEPT ![a].step = "insert"] /\ UNCHANGED <<rowLock, nameLock>>
    <3>1. /\ change'[a].step = "insert" /\ change'[a].name = c.name
          /\ \A b \in NameActor \ {a} : change'[b] = change[b]
      BY <2>2, NewStep
    <3>2. InOrder(a)' BY <2>0, <2>2, <3>1 DEF InOrder, InRename
    <3> QED BY <2>2, <3>1, <3>2, LocklessStep
  <2>3. CASE /\ change' = [change EXCEPT ![a].step = "claim", ![a].name = @ + 1, ![a].left = @ - 1]
             /\ UNCHANGED <<rowLock, nameLock>>
    <3>1. /\ change'[a].step = "claim" /\ change'[a].name = c.name + 1
          /\ \A b \in NameActor \ {a} : change'[b] = change[b]
      BY <1>0, <2>3 DEF Change
    <3>2. ASSUME NEW n \in Name, nameLock[n] = a PROVE n < c.name + 1
      <4>1. n <= c.name BY <2>0, <3>2
      <4>2. n \in Int /\ c.name \in Int BY <1>1, <1>2
      <4> HIDE DEF c
      <4> QED BY <4>1, <4>2
    <3>3. InOrder(a)' BY <2>0, <2>3, <3>1, <3>2 DEF InOrder, InRename
    <3> QED BY <2>3, <3>1, <3>3, LocklessStep
  <2> QED BY <1>4, <2>1, <2>2, <2>3 DEF CheckClaim
<1> QED BY <1>3, <1>4

\* A request begins with empty hands.
LEMMA RequestsInOrder ==
    ASSUME SlugInv, NEW a \in NameActor, InOrder(a), ChangeRequest(a)
    PROVE  InOrder(a)' /\ \A b \in NameActor \ {a} : Uninvolved(b)
<1>1. change[a] = NoChange /\ UNCHANGED <<rowLock, nameLock>>
  BY DEF ChangeRequest, RequestRename, RequestRegistration
<1>2. \A b \in NameActor \ {a} : change'[b] = change[b]
  BY DEF ChangeRequest, RequestRename, RequestRegistration, SlugInv, SlugTypeOK
<1>3. (\A n \in Name : nameLock'[n] # a) /\ (\A m \in Mentor : rowLock'[m] # a)
  BY <1>1 DEF InOrder, InRename, NoChange
<1> QED BY <1>1, <1>2, <1>3, LocklessStep DEF InOrder

\* The check takes no lock.
LEMMA ChecksInOrder ==
    ASSUME SlugInv, NEW a \in NameActor, InOrder(a), CheckRename(a)
    PROVE  InOrder(a)' /\ \A b \in NameActor \ {a} : Uninvolved(b)
<1>1. CASE EndTx(a) BY <1>1, EndsInOrder
<1>2. CASE change' = [change EXCEPT ![a].step = "commit"] /\ UNCHANGED <<rowLock, nameLock>>
  <2>1. /\ change'[a].step = "commit" /\ change'[a].name = change[a].name
        /\ change'[a].old = change[a].old
        /\ \A b \in NameActor \ {a} : change'[b] = change[b]
    BY <1>2, NewStep
  <2>2. change[a].step = "check" BY DEF CheckRename
  <2>3. InOrder(a)' BY <1>2, <2>1, <2>2 DEF InOrder, InRename
  <2> QED BY <1>2, <2>1, <2>3, LocklessStep
<1> QED BY <1>1, <1>2 DEF CheckRename

\* Every step keeps every actor in order.
LEMMA OrderNext == SlugInv /\ OrderInv /\ [SlugNext]_slugVars => OrderInv'
<1> SUFFICES ASSUME SlugInv, OrderInv, [SlugNext]_slugVars PROVE OrderInv' OBVIOUS
<1>1. ASSUME NEW a \in NameActor, InOrder(a)', \A b \in NameActor \ {a} : Uninvolved(b)
      PROVE  OrderInv'
  BY <1>1, UninvolvedInOrder DEF OrderInv
<1>2. ASSUME NEW a \in NameActor, ChangeStep(a) PROVE OrderInv'
  <2>1. CASE CommitRename(a) \/ InsertMentor(a)
    BY <1>1, <2>1, EndsInOrder DEF CommitRename, InsertMentor
  <2> QED BY <1>1, <1>2, <2>1, LockMentorRowInOrder, LockSlugsInOrder, ChecksInOrder,
             ClaimsInOrder DEF ChangeStep, OrderInv
<1>3. ASSUME NEW a \in NameActor, AbandonChange(a) PROVE OrderInv'
  BY <1>1, <1>3, EndsInOrder DEF AbandonChange
<1>4. ASSUME NEW a \in NameActor, ChangeRequest(a) PROVE OrderInv'
  BY <1>1, <1>4, RequestsInOrder DEF OrderInv
<1>5. CASE UNCHANGED <<change, rowLock, nameLock>>
  BY <1>5, UninvolvedInOrder DEF OrderInv, Uninvolved
<1> QED
  BY <1>2, <1>3, <1>4, <1>5 DEF SlugNext, slugVars, ProfileStep, SoftDelete, RestoreDeleted,
     PurgeRow, CooldownPasses, VisitorStep, BeginLookup, LookupCurrent, LookupRedirect,
     LookupProfile

\* A nonempty set of numbers below a bound has a greatest.
LEMMA GreatestOf ==
    ASSUME NEW k \in Nat, NEW T, T \subseteq 0 .. k, T # {}
    PROVE  \E x \in T : \A y \in T : y <= x
<1> DEFINE U == {i \in Nat : i <= k /\ k - i \in T}
<1>1. U \subseteq Nat /\ U # {}
  <2>1. PICK x \in T : TRUE OBVIOUS
  <2>2. x \in Nat /\ x <= k BY <2>1
  <2>3. k - x \in Nat /\ k - x <= k /\ k - (k - x) = x BY <2>2
  <2>4. k - x \in U BY <2>1, <2>3
  <2> QED BY <2>4
<1>2. PICK i \in U : \A j \in U : ~(<<j, i>> \in OpToRel(<, Nat))
  BY <1>1, WFMin, NatLessThanWellFounded
<1>3. \A j \in U : ~(j < i) BY <1>1, <1>2 DEF OpToRel
<1>4. k - i \in T BY <1>2
<1>5. ASSUME NEW y \in T PROVE y <= k - i
  <2>1. y \in Nat /\ y <= k OBVIOUS
  <2>2. k - y \in U BY <2>1, <1>5
  <2>3. ~(k - y < i) BY <1>3, <2>2
  <2>4. i \in Nat BY <1>2
  <2> HIDE DEF U
  <2> QED BY <2>1, <2>3, <2>4
<1> QED BY <1>4, <1>5

\* How far a waiter got: nowhere before its row lock, then the name it waits for.
Rank(a) ==
    CASE change[a].step = "names" -> NextToLock(a)
      [] change[a].step = "claim" -> change[a].name
      [] OTHER -> 0

\* Whoever is waited for and waits itself got further.
LEMMA WaitersAscend ==
    ASSUME SlugInv, OrderInv, NEW a \in NameActor, NEW b \in NameActor,
           WaitsFor(a) = b, WaitsFor(b) \in NameActor
    PROVE  Rank(a) < Rank(b) /\ Rank(b) \in 0 .. NumNames
<1>1. ASSUME NEW d \in NameActor, change[d].step = "names"
      PROVE  NextToLock(d) \in Name /\ nameLock[NextToLock(d)] # d
                                   /\ NextToLock(d) \in {change[d].old, change[d].name}
  BY <1>1, NextToLockIsLeast DEF Wanted
<1>2. \A d \in NameActor : change[d].step = "claim" => change[d].name \in Name
  BY DEF SlugInv, ActorOK, LocalsOK
<1>3. change[b].step \in {"row", "names", "claim"} BY NamesAssumption DEF WaitsFor
<1>4. \A n \in Name : n \in Int /\ 0 < n /\ n \in 0 .. NumNames BY NamesAssumption DEF Name
<1>5. InOrder(b) BY DEF OrderInv
<1>6. CASE change[a].step = "row"
  <2>1. change[a].mentor \in Mentor BY <1>6 DEF SlugInv, ActorOK, LocalsOK
  <2>2. change[b].step = "names" BY <1>3, <1>5, <1>6, <2>1 DEF WaitsFor, InOrder, InRename
  <2> QED BY <1>1, <1>4, <1>6, <2>2 DEF Rank
<1>7. CASE change[a].step \in {"names", "claim"}
  <2>1. Rank(a) \in Name /\ nameLock[Rank(a)] = b
    BY <1>1, <1>2, <1>7 DEF Rank, WaitsFor
  <2>2. change[b].step # "row" BY <1>5, <2>1 DEF InOrder
  <2>3. CASE change[b].step = "names"
    BY <1>1, <1>4, <1>5, <2>1, <2>3 DEF InOrder, Rank
  <2>4. CASE change[b].step = "claim"
    BY <1>2, <1>4, <1>5, <2>1, <2>4 DEF InOrder, Rank
  <2> QED BY <1>3, <2>2, <2>3, <2>4
<1> QED BY <1>6, <1>7, NamesAssumption DEF WaitsFor

\* Requests to rename and to register never wait for each other in a circle, for
\* any number of them and of names.
THEOREM NobodyDeadlocks == SlugSpec => []NoDeadlock
<1>1. SlugInit => OrderInv
  <2> SUFFICES ASSUME SlugInit, NEW a \in NameActor PROVE InOrder(a) BY DEF OrderInv
  <2> QED BY NamesAssumption DEF SlugInit, InOrder
<1>2. SlugInv /\ OrderInv => NoDeadlock
  <2> SUFFICES ASSUME SlugInv, OrderInv, NEW group \in SUBSET NameActor, group # {}
               PROVE  \E a \in group : WaitsFor(a) \notin group
    BY DEF NoDeadlock
  <2> SUFFICES ASSUME \A a \in group : WaitsFor(a) \in group PROVE FALSE
    OBVIOUS
  <2>0. group \subseteq NameActor /\ group # {} OBVIOUS
  <2>1. \A a \in group : WaitsFor(a) \in NameActor BY <2>0
  <2> DEFINE T == {Rank(WaitsFor(a)) : a \in group}
  <2>2. T \subseteq 0 .. NumNames
    <3> SUFFICES ASSUME NEW a \in group PROVE Rank(WaitsFor(a)) \in 0 .. NumNames OBVIOUS
    <3>1. PICK b \in group : b = WaitsFor(a) OBVIOUS
    <3> QED BY <2>0, <2>1, <3>1, WaitersAscend
  <2>3. T # {} BY <2>0
  <2>4. PICK x \in T : \A y \in T : y <= x BY <2>2, <2>3, GreatestOf, NamesAssumption
  <2>5. PICK a \in group : x = Rank(WaitsFor(a)) BY <2>4
  <2>6. PICK b \in group : b = WaitsFor(a) OBVIOUS
  <2>7. PICK d \in group : d = WaitsFor(b) OBVIOUS
  <2>8. Rank(d) \in T BY <2>6, <2>7
  <2>9. Rank(b) < Rank(d) /\ Rank(d) \in 0 .. NumNames BY <2>0, <2>1, <2>6, <2>7, WaitersAscend
  <2>10. Rank(d) <= Rank(b) BY <2>4, <2>5, <2>6, <2>8
  <2>11. Rank(b) \in 0 .. NumNames BY <2>2, <2>5, <2>6
  <2> HIDE DEF T
  <2> QED BY <2>9, <2>10, <2>11
<1> QED BY <1>1, <1>2, OrderNext, SlugInvariant, PTL DEF SlugSpec
================================================================================
