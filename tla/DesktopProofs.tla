--------------------------- MODULE DesktopProofs ----------------------------
(***************************************************************************)
(* The window manager is in order, and the keys and the pointer act on the *)
(* window that shows it, for any programs and any size of the table.       *)
(* BotPaint, one of the programs, for any sizes of its window and any      *)
(* contents of the picture.                                                *)
(***************************************************************************)
EXTENDS WindowManager, Paint, FiniteSetTheorems, WellFoundedInduction, TLAPS

-----------------------------------------------------------------------------
(* First is the least of a set of numbers. *)
LEMMA FirstIsLeast ==
    ASSUME NEW S, S \subseteq Nat, S # {}
    PROVE  First(S) \in S
<1> DEFINE R == {ss \in Nat \X Nat : ss[1] < ss[2]}
<1>1. R = OpToRel(<, Nat)
  BY DEF OpToRel
<1>2. IsWellFoundedOn(R, Nat)
  BY <1>1, NatLessThanWellFounded
<1> HIDE DEF R
<1>3. PICK x \in S : \A y \in S : ~ (<<y, x>> \in R)
  BY <1>2, WFMin
<1>4. ASSUME NEW y \in S PROVE x <= y
  <2>1. <<y, x>> \notin R
    BY <1>3
  <2>2. x \in Nat /\ y \in Nat
    OBVIOUS
  <2> QED BY <2>1, <2>2 DEF R
<1> QED BY <1>3, <1>4 DEF First

(* There are MaxWindows slots. *)
LEMMA SlotsAreFinite == Slot \subseteq Nat /\ IsFiniteSet(Slot) /\ Cardinality(Slot) = MaxWindows
<1>1. MaxWindows \in Nat \ {0}
  BY WindowManagerAssumption
<1>2. 0 \in Int /\ MaxWindows - 1 \in Int
  BY <1>1
<1>3. /\ IsFiniteSet(0 .. MaxWindows - 1)
      /\ Cardinality(0 .. MaxWindows - 1)
            = IF 0 > MaxWindows - 1 THEN 0 ELSE (MaxWindows - 1) - 0 + 1
  BY <1>2, FS_Interval
<1> QED BY <1>1, <1>3 DEF Slot

(* The used slots are finitely many numbers. *)
LEMMA UsedAreFinite == Used \subseteq Slot /\ Used \subseteq Nat /\ IsFiniteSet(Used)
<1>1. Used \subseteq Slot
  BY DEF Used
<1> QED BY <1>1, SlotsAreFinite, FS_Subset

(* A managed program has a slot. *)
LEMMA SlotOfManaged ==
    ASSUME NEW c \in Managed
    PROVE  SlotOf(c) \in Used /\ slot[SlotOf(c)] = c
<1>1. PICK i \in Used : slot[i] = c
  BY DEF Managed
<1>2. i \in Slot
  BY DEF Used
<1>3. SlotOf(c) \in Slot /\ slot[SlotOf(c)] = c
  BY <1>1, <1>2 DEF SlotOf
<1>4. c # NoClient
  BY <1>1 DEF Used
<1> QED BY <1>3, <1>4 DEF Used

(* What is in the queue after an event was queued. *)
LEMMA QueueGrows ==
    ASSUME wmq \in Seq(WMEvent), NEW e \in WMEvent, wmq' = Append(wmq, e)
    PROVE  /\ wmq' \in Seq(WMEvent) /\ Events' = Events \cup {e}
           /\ DOMAIN wmq' = DOMAIN wmq \cup {Len(wmq) + 1}
           /\ \A k \in DOMAIN wmq : wmq'[k] = wmq[k] /\ k < Len(wmq) + 1
           /\ wmq'[Len(wmq) + 1] = e
           /\ Len(wmq) + 1 \in Nat
<1>1. /\ wmq' \in Seq(WMEvent) /\ Len(wmq') = Len(wmq) + 1 /\ Len(wmq) \in Nat
      /\ wmq'[Len(wmq) + 1] = e /\ \A k \in 1 .. Len(wmq) : wmq'[k] = wmq[k]
  OBVIOUS
<1>2. DOMAIN wmq = 1 .. Len(wmq) /\ DOMAIN wmq' = 1 .. (Len(wmq) + 1)
  BY <1>1
<1>3. DOMAIN wmq' = DOMAIN wmq \cup {Len(wmq) + 1}
  BY <1>1, <1>2
<1>4. \A k \in DOMAIN wmq : wmq'[k] = wmq[k] /\ k < Len(wmq) + 1
  BY <1>1, <1>2
<1>5. Events' = Events \cup {e}
  <2>1. Events' = {wmq'[k] : k \in DOMAIN wmq'} /\ Events = {wmq[k] : k \in DOMAIN wmq}
    BY DEF Events
  <2>2. {wmq'[k] : k \in DOMAIN wmq'} = {wmq[k] : k \in DOMAIN wmq} \cup {e}
    BY <1>1, <1>3, <1>4
  <2> QED BY <2>1, <2>2
<1> QED BY <1>1, <1>3, <1>4, <1>5

(* What is in the queue after its first event was taken. *)
LEMMA QueueShrinks ==
    ASSUME wmq \in Seq(WMEvent), wmq # <<>>, wmq' = Tail(wmq)
    PROVE  /\ wmq' \in Seq(WMEvent) /\ Events = Events' \cup {Head(wmq)}
           /\ Head(wmq) \in WMEvent /\ Head(wmq) = wmq[1] /\ 1 \in DOMAIN wmq
           /\ \A k \in DOMAIN wmq' : k \in Nat /\ k + 1 \in DOMAIN wmq /\ wmq'[k] = wmq[k + 1]
           /\ \A k \in DOMAIN wmq \ {1} : k - 1 \in DOMAIN wmq' /\ wmq'[k - 1] = wmq[k]
<1>1. /\ wmq' \in Seq(WMEvent) /\ Len(wmq') = Len(wmq) - 1 /\ Len(wmq) \in Nat \ {0}
      /\ \A k \in 1 .. Len(wmq) - 1 : wmq'[k] = wmq[k + 1]
      /\ Head(wmq) = wmq[1] /\ Head(wmq) \in WMEvent
  OBVIOUS
<1>2. DOMAIN wmq = 1 .. Len(wmq) /\ DOMAIN wmq' = 1 .. (Len(wmq) - 1)
  BY <1>1
<1>3. \A k \in DOMAIN wmq' : k \in Nat /\ k + 1 \in DOMAIN wmq /\ wmq'[k] = wmq[k + 1]
  BY <1>1, <1>2
<1>4. \A k \in DOMAIN wmq \ {1} : k - 1 \in DOMAIN wmq' /\ wmq'[k - 1] = wmq[k]
  BY <1>1, <1>2
<1>5. 1 \in DOMAIN wmq
  BY <1>1, <1>2
<1>6. Events = Events' \cup {Head(wmq)}
  <2>1. Events' = {wmq'[k] : k \in DOMAIN wmq'} /\ Events = {wmq[k] : k \in DOMAIN wmq}
    BY DEF Events
  <2>2. Events' \subseteq Events
    BY <1>3, <2>1
  <2>3. Head(wmq) \in Events
    BY <1>1, <1>5, <2>1
  <2>4. ASSUME NEW e \in Events PROVE e \in Events' \cup {Head(wmq)}
    <3>1. PICK k \in DOMAIN wmq : e = wmq[k]
      BY <2>1
    <3>2. CASE k = 1
      BY <1>1, <3>1, <3>2
    <3>3. CASE k # 1
      BY <1>4, <2>1, <3>1, <3>3
    <3> QED BY <3>2, <3>3
  <2> QED BY <2>2, <2>3, <2>4
<1> QED BY <1>1, <1>3, <1>4, <1>5, <1>6

-----------------------------------------------------------------------------
(* What holds of used slots. *)
LEMMA UsedFacts ==
    ASSUME WMTypeOK, NEW i \in Used
    PROVE  i \in Slot /\ slot[i] \in Client /\ slot[i] \in Managed /\ slot[i] # NoClient
BY WindowManagerAssumption DEF WMTypeOK, Used, Managed

(* Taking a window out of the table. *)
LEMMA RemoveKeepsTable ==
    ASSUME WMTypeOK, TableInv, running, running' = running,
           mapping = NoClient, mapping' = mapping,
           NEW i \in Used, wm_remove_managed(i)
    PROVE  /\ Used' = Used \ {i} /\ Managed' = Managed \ {slot[i]}
           /\ \A j \in Used' : slot'[j] = slot[j]
           /\ TableInv'
           /\ slot' \in [Slot -> Client \cup {NoClient}] /\ focused' \subseteq Slot /\ count' \in Nat
<1> DEFINE rest == Used \ {i}
<1>1. /\ i \in Slot /\ slot[i] \in Client /\ slot[i] # NoClient
      /\ slot \in [Slot -> Client \cup {NoClient}] /\ focused \subseteq Slot /\ count \in Nat
  BY UsedFacts DEF WMTypeOK
<1>2. /\ slot' = [slot EXCEPT ![i] = NoClient]
      /\ count' = IF count > 0 THEN count - 1 ELSE 0
      /\ framed' = framed \ {slot[i]}
      /\ IF i \in focused /\ rest # {} THEN focused' = {First(rest)} ELSE focused' = focused \ {i}
  BY DEF wm_remove_managed
<1>3. /\ count = Cardinality(Used) /\ framed = Managed /\ focused \subseteq Used
      /\ \A j, k \in Used : slot[j] = slot[k] => j = k
      /\ Used # {} => \E j \in Slot : focused = {j}
  BY DEF TableInv
<1>4. Used' = rest
  BY <1>1, <1>2 DEF Used
<1>5. \A j \in rest : slot'[j] = slot[j]
  BY <1>1, <1>2 DEF Used
<1>6. Managed' = Managed \ {slot[i]}
  <2>1. Managed' = {slot'[j] : j \in rest} /\ Managed = {slot[j] : j \in Used}
    BY <1>4 DEF Managed
  <2>2. {slot'[j] : j \in rest} = {slot[j] : j \in rest}
    BY <1>5
  <2>3. {slot[j] : j \in rest} = Managed \ {slot[i]}
    BY <2>1, <1>3
  <2> QED BY <2>1, <2>2, <2>3
<1>7. count' = Cardinality(rest)
  <2>1. IsFiniteSet(Used) /\ Cardinality(Used) \in Nat
    BY UsedAreFinite, FS_CardinalityType
  <2>2. Cardinality(rest) = Cardinality(Used) - 1 /\ Cardinality(rest) \in Nat
    BY <2>1, FS_RemoveElement, FS_Subset, FS_CardinalityType
  <2> QED BY <1>2, <1>3, <2>1, <2>2
<1>8. rest # {} => First(rest) \in rest
  BY FirstIsLeast, UsedAreFinite
<1>9. focused' \subseteq rest /\ (rest # {} => \E j \in rest : focused' = {j})
  <2>1. CASE i \in focused /\ rest # {}
    BY <1>2, <1>8, <2>1
  <2>2. CASE i \notin focused
    BY <1>2, <1>3, <2>2
  <2>3. CASE rest = {}
    BY <1>2, <1>3, <2>3
  <2> QED BY <2>1, <2>2, <2>3
<1>10. rest \subseteq Slot
  BY UsedAreFinite
<1>11. count' \in Nat
  BY <1>1, <1>2
<1>12. slot' \in [Slot -> Client \cup {NoClient}] /\ focused' \subseteq Slot
  BY <1>1, <1>2, <1>9, <1>10
<1>13. TableInv'
  <2>1. \A j, k \in rest : slot'[j] = slot'[k] => j = k
    BY <1>3, <1>5
  <2>2. framed' = Managed'
    BY <1>2, <1>3, <1>6
  <2> QED BY <1>4, <1>7, <1>9, <1>10, <2>1, <2>2 DEF TableInv
<1> QED BY <1>4, <1>5, <1>6, <1>11, <1>12, <1>13

(* Putting one in. *)
LEMMA ManageKeepsTable ==
    ASSUME WMTypeOK, TableInv, Manage
    PROVE  \E i \in Slot \ Used :
             /\ Used' = Used \cup {i} /\ Managed' = Managed \cup {mapping}
             /\ slot'[i] = mapping /\ focused' = {i}
             /\ xfocus' = IF Viewable(mapping) THEN mapping ELSE xfocus
             /\ TableInv'
             /\ slot' \in [Slot -> Client \cup {NoClient}] /\ count' \in Nat
<1> DEFINE i == First(Slot \ Used)
<1>1. /\ slot \in [Slot -> Client \cup {NoClient}] /\ count \in Nat /\ mapping \in Client
      /\ mapping # NoClient /\ running
  BY DEF WMTypeOK, Manage
<1>2. /\ count = Cardinality(Used) /\ framed = Managed
      /\ \A j, k \in Used : slot[j] = slot[k] => j = k
      /\ mapping \notin Managed /\ count < MaxWindows
  BY <1>1 DEF TableInv
<1>3. i \in Slot /\ i \notin Used
  <2>1. Used # Slot
    BY <1>2, SlotsAreFinite, WindowManagerAssumption
  <2>2. Slot \ Used # {}
    BY <2>1, UsedAreFinite
  <2> QED BY <2>2, FirstIsLeast, SlotsAreFinite
<1>4. /\ slot' = [slot EXCEPT ![i] = mapping] /\ count' = count + 1
      /\ framed' = framed \cup {mapping} /\ focused' = {i}
      /\ xfocus' = IF Viewable(mapping) THEN mapping ELSE xfocus
      /\ mapping' = NoClient /\ running' = running
  BY DEF Manage, SetFocus
<1> HIDE DEF i
<1>5. Used' = Used \cup {i}
  BY <1>1, <1>3, <1>4 DEF Used
<1>6. slot'[i] = mapping /\ \A j \in Used : slot'[j] = slot[j]
  BY <1>1, <1>3, <1>4 DEF Used
<1>7. Managed' = Managed \cup {mapping}
  <2>1. Managed' = {slot'[j] : j \in Used \cup {i}} /\ Managed = {slot[j] : j \in Used}
    BY <1>5 DEF Managed
  <2> QED BY <2>1, <1>6
<1>8. count' = Cardinality(Used')
  BY <1>2, <1>3, <1>4, <1>5, UsedAreFinite, FS_AddElement
<1>9. \A j \in Used : slot[j] # mapping
  BY <1>2 DEF Managed
<1>10. TableInv'
  <2>1. \A j, k \in Used' : slot'[j] = slot'[k] => j = k
    BY <1>2, <1>5, <1>6, <1>9
  <2>2. focused' \subseteq Used' /\ (\E j \in Slot : focused' = {j}) /\ framed' = Managed'
    BY <1>2, <1>3, <1>4, <1>5, <1>7
  <2> QED BY <1>4, <1>8, <2>1, <2>2 DEF TableInv
<1>11. slot' \in [Slot -> Client \cup {NoClient}]
  BY <1>1, <1>3, <1>4
<1>12. count' \in Nat
  BY <1>1, <1>4
<1> QED BY <1>12, <1>3, <1>4, <1>5, <1>6, <1>7, <1>10, <1>11

(* Handing on the focus. *)
LEMMA FocusKeepsTable ==
    ASSUME TableInv, NEW i \in Used, wm_set_focus(i),
           UNCHANGED <<slot, count, framed, running, mapping>>
    PROVE  /\ TableInv' /\ Used' = Used /\ Managed' = Managed
           /\ focused' = {i} /\ focused' \subseteq Slot
           /\ xfocus' = IF Viewable(slot[i]) THEN slot[i] ELSE xfocus
<1>1. Used' = Used
  BY DEF Used
<1>2. Managed' = Managed
  BY <1>1 DEF Managed
<1>3. focused' = {i} /\ i \in Slot /\ xfocus' = IF Viewable(slot[i]) THEN slot[i] ELSE xfocus
  BY UsedAreFinite DEF wm_set_focus, SetFocus
<1> QED BY <1>1, <1>2, <1>3 DEF TableInv

-----------------------------------------------------------------------------
(* What stays as it is when some of the state does. *)
LEMMA TableStays ==
    ASSUME TableInv, UNCHANGED <<table, framed, running, mapping>>
    PROVE  TableInv' /\ Used' = Used /\ Managed' = Managed
<1>1. Used' = Used
  BY DEF Used, table
<1>2. Managed' = Managed
  BY <1>1 DEF Managed, table
<1> QED BY <1>1, <1>2 DEF TableInv, table

(* The queue keeps what is in it. *)
Longer ==
    /\ wmq' \in Seq(WMEvent) /\ DOMAIN wmq \subseteq DOMAIN wmq'
    /\ \A k \in DOMAIN wmq : wmq'[k] = wmq[k]

(* All events stay in it. *)
LEMMA LongerEvents ==
    ASSUME Longer PROVE Events \subseteq Events'
BY DEF Longer, Events

(* So it does when an event is queued, *)
LEMMA AppendIsLonger ==
    ASSUME wmq \in Seq(WMEvent), NEW e \in WMEvent, wmq' = Append(wmq, e)
    PROVE  Longer /\ Events' = Events \cup {e} /\ \A k \in DOMAIN wmq' \ DOMAIN wmq : wmq'[k] = e
BY QueueGrows DEF Longer

(* and when nothing is. *)
LEMMA SameIsLonger ==
    ASSUME wmq \in Seq(WMEvent), wmq' = wmq
    PROVE  Longer /\ Events' = Events /\ DOMAIN wmq' = DOMAIN wmq
BY DEF Longer, Events

(* Nothing new is owed while the queue only grows: a press is held, and    *)
(* what is let go of has its release behind it.                            *)
LEMMA ReleaseStays ==
    ASSUME WMTypeOK, ReleaseOwed, Longer,
           \A k \in DOMAIN wmq' \ DOMAIN wmq : wmq'[k].type \in Presses => held' = wmq'[k].c,
           \A c \in Client : Buried(c) =>
               \/ Buried(c)'
               \/ c \notin {drag, sizing} /\ \A k \in DOMAIN wmq : wmq[k].c # c,
           \A c \in Client : held = c =>
               \/ held' = c \/ Buried(c)'
               \/ \E l \in DOMAIN wmq' \ DOMAIN wmq : wmq'[l] = Ev("release", c),
           {drag', sizing'} \subseteq {drag, sizing, NoClient},
           ~running' => framed' = {}, held' # NoClient => held' \in framed'
    PROVE  ReleaseOwed'
<1>0. /\ DOMAIN wmq \subseteq Nat /\ DOMAIN wmq' \subseteq Nat
      /\ \A k \in DOMAIN wmq \cup {0} : \A l \in DOMAIN wmq' \ DOMAIN wmq : k < l
  <2>1. /\ Len(wmq) \in Nat /\ Len(wmq') \in Nat
        /\ DOMAIN wmq = 1 .. Len(wmq) /\ DOMAIN wmq' = 1 .. Len(wmq')
    BY DEF WMTypeOK, Longer
  <2> QED BY <2>1
<1>1. ASSUME NEW c \in Client, NEW k \in DOMAIN wmq \cup {0}, Owed(c, k),
             c \in {drag, sizing} \/ \E l \in DOMAIN wmq : wmq[l].c = c
      PROVE  Owed(c, k)'
  <2>1. CASE Buried(c)
    BY <1>1, <2>1 DEF Owed
  <2>2. CASE held = c
    <3>1. CASE \E l \in DOMAIN wmq' \ DOMAIN wmq : wmq'[l] = Ev("release", c)
      BY <1>0, <3>1 DEF Owed, Ev
    <3> QED BY <2>2, <3>1 DEF Owed
  <2>3. CASE \E l \in DOMAIN wmq : k < l /\ wmq[l] = Ev("release", c)
    BY <2>3 DEF Owed, Longer, Ev
  <2> QED BY <1>1, <2>1, <2>2, <2>3 DEF Owed
<1>2. ASSUME NEW c \in Client, c \in {drag', sizing'} PROVE Owed(c, 0)'
  <2>1. c \in {drag, sizing}
    BY <1>2, WindowManagerAssumption
  <2>2. Owed(c, 0)
    BY <2>1 DEF ReleaseOwed
  <2> QED BY <1>1, <2>1, <2>2
<1>3. ASSUME NEW c \in Client, NEW k \in DOMAIN wmq', wmq'[k].type \in Presses, wmq'[k].c = c
      PROVE  Owed(c, k)'
  <2>1. CASE k \in DOMAIN wmq
    <3>1. wmq'[k] = wmq[k]
      BY <2>1 DEF Longer
    <3>2. Owed(c, k)
      BY <1>3, <2>1, <3>1 DEF ReleaseOwed
    <3> QED BY <1>1, <1>3, <2>1, <3>1, <3>2
  <2>2. CASE k \notin DOMAIN wmq
    BY <1>3, <2>2 DEF Owed
  <2> QED BY <2>1, <2>2
<1> QED BY <1>2, <1>3 DEF ReleaseOwed

(* Nor when an event is taken from it, but for a press that is handled,    *)
(* and a release, which ends what is under way.                            *)
LEMMA ReleasePops ==
    ASSUME WMTypeOK, ReleaseOwed, wmq # <<>>, wmq' = Tail(wmq),
           \A c \in Client : Buried(c) => Buried(c)',
           \A c \in Client : held = c => held' = c \/ Buried(c)',
           \A c \in {drag', sizing'} \ {NoClient} :
               /\ Head(wmq).type # "release"
               /\ c \in {drag, sizing} \/ (c = Head(wmq).c /\ Head(wmq).type \in Presses),
           ~running' => framed' = {}, held' # NoClient => held' \in framed'
    PROVE  ReleaseOwed'
<1>0. /\ 1 \in DOMAIN wmq /\ Head(wmq) = wmq[1] /\ Head(wmq) \in WMEvent
      /\ \A k \in DOMAIN wmq' : k \in Nat /\ k + 1 \in DOMAIN wmq /\ wmq'[k] = wmq[k + 1]
      /\ \A k \in DOMAIN wmq \ {1} : k - 1 \in DOMAIN wmq' /\ wmq'[k - 1] = wmq[k]
      /\ DOMAIN wmq \subseteq Nat
  BY QueueShrinks DEF WMTypeOK
<1>1. ASSUME NEW c \in Client, NEW k \in Nat, NEW n \in Nat, Owed(c, k),
             k = n + 1 \/ (k = n /\ k = 0 /\ wmq[1] # Ev("release", c))
      PROVE  Owed(c, n)'
  <2>1. CASE Buried(c)
    BY <2>1 DEF Owed
  <2>2. CASE held = c
    BY <2>2 DEF Owed
  <2>3. CASE \E l \in DOMAIN wmq : k < l /\ wmq[l] = Ev("release", c)
    <3>1. PICK l \in DOMAIN wmq : k < l /\ wmq[l] = Ev("release", c)
      BY <2>3
    <3>2. l \in Nat /\ l # 1
      BY <1>0, <1>1, <3>1
    <3>3. l - 1 \in DOMAIN wmq' /\ wmq'[l - 1] = Ev("release", c) /\ n < l - 1
      BY <1>0, <1>1, <3>1, <3>2
    <3>4. Ev("release", c)' = Ev("release", c)
      BY DEF Ev
    <3> QED BY <3>3, <3>4 DEF Owed
  <2> QED BY <1>1, <2>1, <2>2, <2>3 DEF Owed
<1>2. ASSUME NEW c \in Client, c \in {drag', sizing'} PROVE Owed(c, 0)'
  <2>1. c # NoClient
    BY WindowManagerAssumption
  <2>2. CASE c \in {drag, sizing}
    <3>1. Owed(c, 0)
      BY <2>2 DEF ReleaseOwed
    <3>2. wmq[1] # Ev("release", c)
      <4>1. Head(wmq).type # "release"
        BY <1>2, <2>1
      <4> QED BY <1>0, <4>1 DEF Ev
    <3> QED BY <1>1, <3>1, <3>2
  <2>3. CASE c = Head(wmq).c /\ Head(wmq).type \in Presses
    <3>1. Owed(c, 1)
      BY <1>0, <2>3 DEF ReleaseOwed
    <3> QED BY <1>1, <3>1
  <2> QED BY <1>2, <2>1, <2>2, <2>3
<1>3. ASSUME NEW c \in Client, NEW k \in DOMAIN wmq', wmq'[k].type \in Presses, wmq'[k].c = c
      PROVE  Owed(c, k)'
  <2>1. k \in Nat /\ k + 1 \in DOMAIN wmq /\ wmq'[k] = wmq[k + 1]
    BY <1>0
  <2>2. Owed(c, k + 1)
    BY <1>3, <2>1 DEF ReleaseOwed
  <2> QED BY <1>1, <2>1, <2>2
<1> QED BY <1>2, <1>3 DEF ReleaseOwed

(* What the queue reports is kept while it grows, *)
LEMMA LongerKeeps ==
    ASSUME Longer, NEW c
    PROVE  /\ Leaving(c) => Leaving(c)'
           /\ Ev("map", c) \in Events => Ev("map", c) \in Events'
BY LongerEvents DEF Leaving, Ev

(* and while it is a press, a key or a motion that is taken from it. *)
LEMMA PopKeeps ==
    ASSUME WMTypeOK, wmq # <<>>, wmq' = Tail(wmq),
           Head(wmq).type \notin {"map", "unmap", "destroy"}, NEW c
    PROVE  /\ Leaving(c) => Leaving(c)'
           /\ Ev("map", c) \in Events => Ev("map", c) \in Events'
<1>1. Events = Events' \cup {Head(wmq)}
  BY QueueShrinks DEF WMTypeOK
<1>2. Ev("map", c) # Head(wmq) /\ Ev("unmap", c) # Head(wmq) /\ Ev("destroy", c) # Head(wmq)
  BY DEF Ev
<1>3. \A t : Ev(t, c)' = Ev(t, c)
  BY DEF Ev
<1> QED BY <1>1, <1>2, <1>3 DEF Leaving

(* Who has not shown a window is spoken of nowhere. *)
LEMMA EventsStay ==
    ASSUME EventsNameClients, WMTypeOK,
           \A e \in Events' \ Events :
               /\ e.c \in Client \/ e.type \notin {"map", "unmap", "destroy", "title", "close", "grip"}
               /\ \A c \in Client : e.c = c => app'[c] \notin {"off", "up"},
           \A c \in Client : app'[c] \in {"off", "up"} =>
               \/ app[c] \in {"off", "up"}
               \/ c \notin Managed \cup {mapping, drag, sizing} /\ \A e \in Events : e.c # c,
           Managed' \cup {mapping', drag', sizing'}
               \subseteq Managed \cup {mapping, drag, sizing, NoClient} \cup {e.c : e \in Events}
    PROVE  EventsNameClients'
<1>1. \A e \in Events' : e.c \in Client
                     \/ e.type \notin {"map", "unmap", "destroy", "title", "close", "grip"}
  BY DEF EventsNameClients
<1>2. ASSUME NEW c \in Client, app'[c] \in {"off", "up"}
      PROVE  (\A e \in Events' : e.c # c) /\ c \notin Managed' \cup {mapping', drag', sizing'}
  <2>1. c \notin Managed \cup {mapping, drag, sizing} /\ \A e \in Events : e.c # c
    BY <1>2 DEF EventsNameClients
  <2>2. c # NoClient
    BY WindowManagerAssumption
  <2> QED BY <1>2, <2>1, <2>2
<1> QED BY <1>1, <1>2 DEF EventsNameClients

(* What is not shown stays reported. *)
LEMMA ReportsStay ==
    ASSUME ReportsQueued, mapping' = mapping, Managed' = Managed, running' = running,
           \A c \in Client : Leaving(c) => Leaving(c)',
           \A c \in Client : Ev("map", c) \in Events => Ev("map", c) \in Events',
           \A c \in Client : app'[c] = "asked" => app[c] = "asked" \/ Ev("map", c) \in Events',
           \A c \in Client :
               \/ app'[c] = app[c] \/ app'[c] = "shown"
               \/ app'[c] \in {"hidden", "gone"} /\ Leaving(c)'
               \/ (running => c \notin Managed) /\ app'[c] # "gone",
           Managed \subseteq Client
    PROVE  ReportsQueued'
<1>0. \A c : Ev("map", c)' = Ev("map", c)
  BY DEF Ev
<1>1. ASSUME NEW c \in Client, app'[c] = "asked" PROVE mapping' = c \/ Ev("map", c)' \in Events'
  BY <1>0, <1>1 DEF ReportsQueued
<1>2. ASSUME running', NEW c \in Managed'
      PROVE  app'[c] = "shown" \/ (app'[c] \in {"hidden", "gone"} /\ Leaving(c)')
  <2>1. c \in Client /\ (app[c] = "shown" \/ (app[c] \in {"hidden", "gone"} /\ Leaving(c)))
    BY <1>2 DEF ReportsQueued
  <2> QED BY <1>2, <2>1
<1>3. ASSUME NEW c \in Client, mapping' = c PROVE running' /\ (app'[c] = "gone" => Leaving(c)')
  BY <1>3 DEF ReportsQueued
<1> QED BY <1>1, <1>2, <1>3 DEF ReportsQueued

(* The keyboard stays where it is, or where it is owed. *)
LEMMA KeyboardStays ==
    ASSUME WMTypeOK, TableInv, KeyboardOwed, UNCHANGED <<slot, focused, running>>,
           ~palette'.active => ~palette.active,
           \A c \in Client : Leaving(c) => Leaving(c)',
           running => \A c \in Managed : xfocus = c => xfocus' = c \/ Leaving(c)'
    PROVE  KeyboardOwed'
<1>1. Used' = Used
  BY DEF Used
<1>2. \A c \in {slot[i] : i \in focused} : c \in Client /\ c \in Managed
  BY UsedFacts DEF TableInv
<1>3. {slot[i] : i \in focused}' = {slot[i] : i \in focused}
  OBVIOUS
<1> QED BY <1>1, <1>2, <1>3 DEF KeyboardOwed

(* The keyboard goes with the focus, or to a window that is reported. *)
LEMMA KeyboardGoes ==
    ASSUME WMTypeOK, TableInv, ReportsQueued, running, slot' = slot, mapping' = mapping,
           NEW i \in Used, wm_set_focus(i),
           \A c \in Client : Leaving(c) => Leaving(c)'
    PROVE  KeyboardOwed'
<1>1. slot[i] \in Client /\ slot[i] \in Managed
  BY UsedFacts
<1>2. focused' = {i} /\ xfocus' = IF Viewable(slot[i]) THEN slot[i] ELSE xfocus
  BY DEF wm_set_focus, SetFocus
<1>3. Viewable(slot[i]) \/ Leaving(slot[i])
  BY <1>1 DEF ReportsQueued, Viewable
<1>4. xfocus' = slot[i] \/ Leaving(slot[i])'
  BY <1>1, <1>2, <1>3
<1>5. slot[i] \in {slot[j] : j \in focused}'
  BY <1>2
<1> QED BY <1>4, <1>5 DEF KeyboardOwed

-----------------------------------------------------------------------------
(* Managed windows are windows of programs. *)
LEMMA ManagedAreClients ==
    ASSUME WMTypeOK PROVE Managed \subseteq Client /\ NoClient \notin Client
BY UsedFacts, WindowManagerAssumption DEF Managed

(* A program shows its window. *)
LEMMA ShowKeeps ==
    ASSUME WMIInv, NEW c \in Client, Show(c)
    PROVE  WMIInv'
<1> DEFINE e == Ev("map", c)
<1>1. /\ WMTypeOK /\ TableInv /\ EventsNameClients /\ ReportsQueued /\ KeyboardOwed /\ ReleaseOwed
      /\ running /\ app[c] \in {"up", "asked", "hidden"}
      /\ UNCHANGED <<framed, xfocus, held, slot, focused, count, mapping, drag, sizing, palette, running>>
      /\ e \in WMEvent
  BY DEF WMIInv, Show, table, pull, Ev, WMEvent
<1>2. /\ Longer /\ Events' \subseteq Events \cup {e} /\ \A k \in DOMAIN wmq' \ DOMAIN wmq : wmq'[k] = e
      /\ \/ c \in framed /\ app' = [app EXCEPT ![c] = "shown"] /\ Events' = Events
         \/ c \notin framed /\ app' = [app EXCEPT ![c] = "asked"] /\ e \in Events'
  <2>1. CASE c \in framed
    BY <1>1, <2>1, SameIsLonger DEF Show, WMTypeOK
  <2>2. CASE c \notin framed
    <3>1. wmq' = Append(wmq, e) /\ app' = [app EXCEPT ![c] = "asked"]
      BY <2>2 DEF Show
    <3> QED BY <1>1, <2>2, <3>1, AppendIsLonger DEF WMTypeOK
  <2> QED BY <2>1, <2>2
<1>3. /\ app' \in [Client -> AppState] /\ app \in [Client -> AppState]
      /\ \A d \in Client : d # c => app'[d] = app[d]
      /\ app'[c] \in {"shown", "asked"} /\ (app'[c] = "asked" => c \notin framed /\ e \in Events')
  BY <1>1, <1>2 DEF WMTypeOK, AppState
<1>4. e.type = "map" /\ e.c = c
  BY DEF Ev
<1> HIDE DEF e
<1>5. WMTypeOK'
  BY <1>1, <1>2, <1>3 DEF WMTypeOK, Longer
<1>6. TableInv' /\ Used' = Used /\ Managed' = Managed /\ framed = Managed
  BY <1>1, TableStays DEF table, TableInv
<1>7. \A d \in Client : /\ Leaving(d) => Leaving(d)'
                        /\ Ev("map", d) \in Events => Ev("map", d) \in Events'
  BY <1>2, LongerKeeps
<1>8. EventsNameClients'
  <2>1. \A d \in Client : app'[d] \in {"off", "up"} => app[d] \in {"off", "up"}
    BY <1>3
  <2>2. \A f \in Events' \ Events : f.c = c
    BY <1>2, <1>4
  <2>3. \A f \in Events' \ Events : \A d \in Client : f.c = d => app'[d] \notin {"off", "up"}
    BY <1>3, <2>2
  <2> QED BY <1>1, <1>6, <2>1, <2>2, <2>3, EventsStay
<1>9. ReportsQueued'
  <2>1. \A d \in Client : app'[d] = "asked" => app[d] = "asked" \/ Ev("map", d) \in Events'
    BY <1>3 DEF e
  <2>2. \A d \in Client : app'[d] = app[d] \/ app'[d] = "shown" \/ (d \notin Managed /\ app'[d] # "gone")
    BY <1>3, <1>6
  <2> QED BY <1>1, <1>6, <1>7, <2>1, <2>2, ReportsStay, ManagedAreClients
<1>10. KeyboardOwed'
  BY <1>1, <1>7, KeyboardStays
<1>11. ReleaseOwed'
  <2>1. \A k \in DOMAIN wmq' \ DOMAIN wmq : wmq'[k].type \notin Presses
    BY <1>2, <1>4 DEF Presses
  <2>2. \A d \in Client : Buried(d) => Buried(d)'
    BY <1>1, <1>3 DEF Buried
  <2>3. ~running' => framed' = {}
    BY <1>1
  <2>4. held' # NoClient => held' \in framed'
    BY <1>1 DEF ReleaseOwed
  <2> QED BY <1>1, <1>2, <2>1, <2>2, <2>3, <2>4, ReleaseStays
<1> QED BY <1>5, <1>6, <1>8, <1>9, <1>10, <1>11 DEF WMIInv

(* A program hides its window. *)
LEMMA HideKeeps ==
    ASSUME WMIInv, NEW c \in Client, Hide(c)
    PROVE  WMIInv'
<1> DEFINE e == Ev("unmap", c)
<1>1. /\ WMTypeOK /\ TableInv /\ EventsNameClients /\ ReportsQueued /\ KeyboardOwed /\ ReleaseOwed
      /\ app[c] = "shown" /\ app' = [app EXCEPT ![c] = "hidden"] /\ xfocus' = FocusWithout({c})
      /\ UNCHANGED <<framed, held, slot, focused, count, mapping, drag, sizing, palette, running>>
      /\ e \in WMEvent
  BY DEF WMIInv, Hide, table, pull, Ev, WMEvent
<1>2. /\ Longer /\ Events' \subseteq Events \cup {e} /\ \A k \in DOMAIN wmq' \ DOMAIN wmq : wmq'[k] = e
      /\ c \in framed => e \in Events'
  <2>1. CASE c \in framed
    <3>1. wmq' = Append(wmq, e)
      BY <2>1 DEF Hide
    <3> QED BY <1>1, <2>1, <3>1, AppendIsLonger DEF WMTypeOK
  <2>2. CASE c \notin framed
    BY <1>1, <2>2, SameIsLonger DEF Hide, WMTypeOK
  <2> QED BY <2>1, <2>2
<1>3. /\ app' \in [Client -> AppState] /\ app \in [Client -> AppState]
      /\ \A d \in Client : d # c => app'[d] = app[d]
      /\ app'[c] = "hidden"
  BY <1>1 DEF WMTypeOK, AppState
<1>4. e.type = "unmap" /\ e.c = c /\ (e \in Events' => Leaving(c)')
  BY DEF Ev, Leaving
<1> HIDE DEF e
<1>5. WMTypeOK'
  BY <1>1, <1>2, <1>3 DEF WMTypeOK, Longer, FocusWithout
<1>6. TableInv' /\ Used' = Used /\ Managed' = Managed /\ (running => framed = Managed)
  BY <1>1, TableStays DEF table, TableInv
<1>7. \A d \in Client : /\ Leaving(d) => Leaving(d)'
                        /\ Ev("map", d) \in Events => Ev("map", d) \in Events'
  BY <1>2, LongerKeeps
<1>8. EventsNameClients'
  <2>1. \A d \in Client : app'[d] \in {"off", "up"} => app[d] \in {"off", "up"}
    BY <1>3
  <2>2. \A f \in Events' \ Events : f.c = c
    BY <1>2, <1>4
  <2>3. \A f \in Events' \ Events : \A d \in Client : f.c = d => app'[d] \notin {"off", "up"}
    BY <1>3, <2>2
  <2> QED BY <1>1, <1>6, <2>1, <2>2, <2>3, EventsStay
<1>9. ReportsQueued'
  <2>1. \A d \in Client : app'[d] = "asked" => app[d] = "asked"
    BY <1>3
  <2>2. \A d \in Client :
           \/ app'[d] = app[d]
           \/ app'[d] \in {"hidden", "gone"} /\ Leaving(d)'
           \/ (running => d \notin Managed) /\ app'[d] # "gone"
    BY <1>2, <1>3, <1>4, <1>6
  <2> QED BY <1>1, <1>6, <1>7, <2>1, <2>2, ReportsStay, ManagedAreClients
<1>10. KeyboardOwed'
  <2>1. running => \A d \in Managed : xfocus = d => xfocus' = d \/ Leaving(d)'
    BY <1>1, <1>2, <1>4, <1>6 DEF FocusWithout
  <2> QED BY <1>1, <1>7, <2>1, KeyboardStays
<1>11. ReleaseOwed'
  <2>1. \A k \in DOMAIN wmq' \ DOMAIN wmq : wmq'[k].type \notin Presses
    BY <1>2, <1>4 DEF Presses
  <2>2. \A d \in Client : Buried(d) => Buried(d)'
    BY <1>1, <1>3 DEF Buried
  <2>3. (~running' => framed' = {}) /\ (held' # NoClient => held' \in framed')
    BY <1>1 DEF ReleaseOwed
  <2> QED BY <1>1, <1>2, <2>1, <2>2, <2>3, ReleaseStays
<1> QED BY <1>5, <1>6, <1>8, <1>9, <1>10, <1>11 DEF WMIInv

(* A program's window is destroyed. *)
LEMMA DieKeeps ==
    ASSUME WMIInv, NEW c \in Client, Die(c)
    PROVE  WMIInv'
<1> DEFINE e == Ev("destroy", c)
           f == Ev("unmap", c)
<1>1. /\ WMTypeOK /\ TableInv /\ EventsNameClients /\ ReportsQueued /\ KeyboardOwed /\ ReleaseOwed
      /\ app[c] \in {"up", "asked", "shown", "hidden"}
      /\ app' = [app EXCEPT ![c] = "gone"] /\ xfocus' = FocusWithout({c})
      /\ UNCHANGED <<framed, held, slot, focused, count, mapping, drag, sizing, palette, running>>
      /\ e \in WMEvent /\ f \in WMEvent
  BY DEF WMIInv, Die, Exists, table, pull, Ev, WMEvent
<1>2. /\ Longer /\ Events' \subseteq Events \cup {e, f} /\ e \in Events'
      /\ \A k \in DOMAIN wmq' \ DOMAIN wmq : wmq'[k] \in {e, f}
  <2>1. wmq \in Seq(WMEvent)
    BY <1>1 DEF WMTypeOK
  <2>2. PICK m \in {<<>>, <<f>>} : wmq' = wmq \o m \o <<e>>
    BY DEF Die
  <2>3. /\ wmq' \in Seq(WMEvent) /\ Len(wmq') = Len(wmq) + Len(m) + 1 /\ Len(wmq) \in Nat
        /\ Len(m) \in {0, 1}
        /\ \A k \in 1 .. Len(wmq) : wmq'[k] = wmq[k]
        /\ wmq'[Len(wmq) + Len(m) + 1] = e
        /\ Len(m) = 1 => wmq'[Len(wmq) + 1] = f
    <3>1. CASE m = <<>>
      <4>1. wmq' = wmq \o <<e>>
        BY <2>1, <2>2, <3>1
      <4> QED BY <1>1, <2>1, <3>1, <4>1
    <3>2. CASE m = <<f>>
      <4>1. wmq \o m \in Seq(WMEvent) /\ Len(wmq \o m) = Len(wmq) + 1 /\ Len(wmq) \in Nat
        BY <1>1, <2>1, <3>2
      <4>2. (\A k \in 1 .. Len(wmq) : (wmq \o m)[k] = wmq[k]) /\ (wmq \o m)[Len(wmq) + 1] = f
        BY <1>1, <2>1, <3>2
      <4>3. /\ wmq' \in Seq(WMEvent) /\ Len(wmq') = Len(wmq \o m) + 1
            /\ \A k \in 1 .. Len(wmq \o m) : wmq'[k] = (wmq \o m)[k]
            /\ wmq'[Len(wmq \o m) + 1] = e
        BY <1>1, <2>2, <4>1
      <4> QED BY <3>2, <4>1, <4>2, <4>3
    <3> QED BY <2>2, <3>1, <3>2
  <2>4. DOMAIN wmq = 1 .. Len(wmq) /\ DOMAIN wmq' = 1 .. (Len(wmq) + Len(m) + 1)
    BY <2>1, <2>3
  <2> HIDE DEF e, f
  <2>5. Longer
    BY <2>3, <2>4 DEF Longer
  <2>6. \A k \in DOMAIN wmq' \ DOMAIN wmq : wmq'[k] \in {e, f}
    <3>1. CASE Len(m) = 0
      BY <2>3, <2>4, <3>1
    <3>2. CASE Len(m) = 1
      BY <2>3, <2>4, <3>2
    <3> QED BY <2>3, <3>1, <3>2
  <2>7. \E k \in DOMAIN wmq' : wmq'[k] = e
    BY <2>3, <2>4
  <2>8. Events' \subseteq Events \cup {e, f} /\ e \in Events'
    BY <2>5, <2>6, <2>7 DEF Events, Longer
  <2> QED BY <2>5, <2>6, <2>8
<1>3. /\ app' \in [Client -> AppState] /\ app \in [Client -> AppState]
      /\ \A d \in Client : d # c => app'[d] = app[d]
      /\ app'[c] = "gone"
  BY <1>1 DEF WMTypeOK, AppState
<1>4. e.type = "destroy" /\ e.c = c /\ f.type = "unmap" /\ f.c = c /\ (e \in Events' => Leaving(c)')
  BY DEF Ev, Leaving
<1> HIDE DEF e, f
<1>5. WMTypeOK'
  BY <1>1, <1>2, <1>3 DEF WMTypeOK, Longer, FocusWithout
<1>6. TableInv' /\ Used' = Used /\ Managed' = Managed
  BY <1>1, TableStays DEF table
<1>7. \A d \in Client : /\ Leaving(d) => Leaving(d)'
                        /\ Ev("map", d) \in Events => Ev("map", d) \in Events'
  BY <1>2, LongerKeeps
<1>8. EventsNameClients'
  <2>1. \A d \in Client : app'[d] \in {"off", "up"} => app[d] \in {"off", "up"}
    BY <1>3
  <2>2. \A g \in Events' \ Events : g.c = c
    BY <1>2, <1>4
  <2>3. \A g \in Events' \ Events : \A d \in Client : g.c = d => app'[d] \notin {"off", "up"}
    BY <1>3, <2>2
  <2> QED BY <1>1, <1>6, <2>1, <2>2, <2>3, EventsStay
<1>9. ReportsQueued'
  <2>1. \A d \in Client : app'[d] = "asked" => app[d] = "asked"
    BY <1>3
  <2>2. \A d \in Client : app'[d] = app[d] \/ (app'[d] \in {"hidden", "gone"} /\ Leaving(d)')
    BY <1>2, <1>3, <1>4
  <2> QED BY <1>1, <1>6, <1>7, <2>1, <2>2, ReportsStay, ManagedAreClients
<1>10. KeyboardOwed'
  <2>1. \A d \in Managed : xfocus = d => xfocus' = d \/ Leaving(d)'
    BY <1>1, <1>2, <1>4 DEF FocusWithout
  <2> QED BY <1>1, <1>7, <2>1, KeyboardStays
<1>11. ReleaseOwed'
  <2>1. \A k \in DOMAIN wmq' \ DOMAIN wmq : wmq'[k].type \notin Presses
    BY <1>2, <1>4 DEF Presses
  <2>2. \A d \in Client : Buried(d) => Buried(d)'
    BY <1>1, <1>3 DEF Buried
  <2>3. (~running' => framed' = {}) /\ (held' # NoClient => held' \in framed')
    BY <1>1 DEF ReleaseOwed
  <2> QED BY <1>1, <1>2, <2>1, <2>2, <2>3, ReleaseStays
<1> QED BY <1>5, <1>6, <1>8, <1>9, <1>10, <1>11 DEF WMIInv

(* It can be started again. *)
LEMMA ReapKeeps ==
    ASSUME WMIInv, NEW c \in Client, reap_children(c)
    PROVE  WMIInv'
<1>1. /\ WMTypeOK /\ TableInv /\ EventsNameClients /\ ReportsQueued /\ KeyboardOwed /\ ReleaseOwed
      /\ c \notin Managed /\ c \notin {mapping, drag, sizing} /\ \A k \in DOMAIN wmq : wmq[k].c # c
      /\ app' = [app EXCEPT ![c] = "off"]
      /\ UNCHANGED <<framed, xfocus, held, wmq, slot, focused, count, mapping, drag, sizing, palette, running>>
  BY DEF WMIInv, reap_children, table, pull
<1>2. Longer /\ Events' = Events /\ DOMAIN wmq' = DOMAIN wmq
  BY <1>1, SameIsLonger DEF WMTypeOK
<1>3. /\ app' \in [Client -> AppState] /\ app \in [Client -> AppState]
      /\ \A d \in Client : d # c => app'[d] = app[d]
      /\ app'[c] = "off"
  BY <1>1 DEF WMTypeOK, AppState
<1>5. WMTypeOK'
  BY <1>1, <1>3 DEF WMTypeOK
<1>6. TableInv' /\ Used' = Used /\ Managed' = Managed
  BY <1>1, TableStays DEF table
<1>7. \A d \in Client : /\ Leaving(d) => Leaving(d)'
                        /\ Ev("map", d) \in Events => Ev("map", d) \in Events'
  BY <1>2, LongerKeeps
<1>8. EventsNameClients'
  <2>1. \A e \in Events : e.c # c
    BY <1>1 DEF Events
  <2>2. \A d \in Client : app'[d] \in {"off", "up"} =>
          \/ app[d] \in {"off", "up"}
          \/ d \notin Managed \cup {mapping, drag, sizing} /\ \A e \in Events : e.c # d
    BY <1>1, <1>3, <2>1
  <2> QED BY <1>1, <1>2, <1>6, <2>2, EventsStay
<1>9. ReportsQueued'
  <2>1. \A d \in Client : app'[d] = "asked" => app[d] = "asked"
    BY <1>3
  <2>2. \A d \in Client : app'[d] = app[d] \/ ((running => d \notin Managed) /\ app'[d] # "gone")
    BY <1>1, <1>3
  <2> QED BY <1>1, <1>6, <1>7, <2>1, <2>2, ReportsStay, ManagedAreClients
<1>10. KeyboardOwed'
  BY <1>1, <1>7, KeyboardStays
<1>11. ReleaseOwed'
  <2>1. \A d \in Client : Buried(d) =>
          \/ Buried(d)'
          \/ d \notin {drag, sizing} /\ \A k \in DOMAIN wmq : wmq[k].c # d
    BY <1>1, <1>3 DEF Buried
  <2>2. (~running' => framed' = {}) /\ (held' # NoClient => held' \in framed')
    BY <1>1 DEF ReleaseOwed
  <2> QED BY <1>1, <1>2, <2>1, <2>2, ReleaseStays
<1> QED BY <1>5, <1>6, <1>8, <1>9, <1>10, <1>11 DEF WMIInv

(* The user presses a key or a button, lets it go or moves the pointer. *)
LEMMA UserKeeps ==
    ASSUME WMIInv, NEW e \in WMEvent, e.type \in UserEvent, wmq' = Append(wmq, e),
           e.type \in Presses => e.c \in Client /\ held' = e.c,
           e.c \in framed \cup {NoClient},
           held' \in framed \cup {NoClient},
           held' = held \/ held = NoClient \/ (held' = NoClient /\ e = Ev("release", held)),
           UNCHANGED <<app, framed, xfocus, table, mapping, pull, palette, running>>, running
    PROVE  WMIInv'
<1>1. /\ WMTypeOK /\ TableInv /\ EventsNameClients /\ ReportsQueued /\ KeyboardOwed /\ ReleaseOwed
      /\ UNCHANGED <<app, framed, xfocus, slot, focused, count, mapping, drag, sizing, palette, running>>
  BY DEF WMIInv, table, pull
<1>2. Longer /\ Events' = Events \cup {e} /\ \A k \in DOMAIN wmq' \ DOMAIN wmq : wmq'[k] = e
  BY <1>1, AppendIsLonger DEF WMTypeOK
<1>3. \E k \in DOMAIN wmq' \ DOMAIN wmq : wmq'[k] = e
  <2>1. wmq \in Seq(WMEvent)
    BY <1>1 DEF WMTypeOK
  <2>2. /\ DOMAIN wmq' = DOMAIN wmq \cup {Len(wmq) + 1} /\ wmq'[Len(wmq) + 1] = e
        /\ \A k \in DOMAIN wmq : k < Len(wmq) + 1
        /\ Len(wmq) + 1 \in Nat
    BY <2>1, QueueGrows
  <2>3. Len(wmq) + 1 \notin DOMAIN wmq
    BY <2>2
  <2> QED BY <2>2, <2>3
<1>5. WMTypeOK'
  <2>1. framed \subseteq Client
    BY <1>1 DEF WMTypeOK
  <2> QED BY <1>1, <1>2, <2>1 DEF WMTypeOK, Longer
<1>6. TableInv' /\ Used' = Used /\ Managed' = Managed /\ framed = Managed
  BY <1>1, TableStays DEF table, TableInv
<1>7. \A d \in Client : /\ Leaving(d) => Leaving(d)'
                        /\ Ev("map", d) \in Events => Ev("map", d) \in Events'
  BY <1>2, LongerKeeps
<1>8. EventsNameClients'
  <2>1. e.c \in Client \/ e.type \notin {"map", "unmap", "destroy", "title", "close", "grip"}
    BY DEF UserEvent, Presses
  <2>2. \A d \in Client : e.c = d => app'[d] \notin {"off", "up"}
    <3>1. NoClient \notin Client
      BY <1>1, ManagedAreClients
    <3> QED BY <1>1, <1>6, <3>1 DEF EventsNameClients
  <2> QED BY <1>1, <1>2, <1>6, <2>1, <2>2, EventsStay
<1>9. ReportsQueued'
  BY <1>1, <1>6, <1>7, ReportsStay, ManagedAreClients
<1>10. KeyboardOwed'
  BY <1>1, <1>7, KeyboardStays
<1>11. ReleaseOwed'
  <2>1. \A k \in DOMAIN wmq' \ DOMAIN wmq : wmq'[k].type \in Presses => held' = wmq'[k].c
    BY <1>2
  <2>2. \A d \in Client : Buried(d) => Buried(d)'
    BY <1>1 DEF Buried
  <2>3. (~running' => framed' = {}) /\ (held' # NoClient => held' \in framed')
    BY <1>1 DEF ReleaseOwed
  <2>4. \A d \in Client : held = d =>
          \/ held' = d \/ Buried(d)'
          \/ \E l \in DOMAIN wmq' \ DOMAIN wmq : wmq'[l] = Ev("release", d)
    BY <1>3, WindowManagerAssumption
  <2> QED BY <1>1, <1>2, <2>1, <2>2, <2>3, <2>4, ReleaseStays
<1> QED BY <1>5, <1>6, <1>8, <1>9, <1>10, <1>11 DEF WMIInv

(* A button is pressed on a frame, *)
LEMMA PressKeeps ==
    ASSUME WMIInv, NEW c \in Client, NEW zone \in Presses, Press(c, zone)
    PROVE  WMIInv'
<1> DEFINE e == Ev(zone, c)
<1>1. e \in WMEvent /\ e.type = zone /\ e.c = c /\ zone \in UserEvent
  BY DEF Ev, WMEvent, UserEvent, Presses
<1>2. /\ wmq' = Append(wmq, e) /\ held = NoClient /\ c \in framed /\ held' = c /\ running
      /\ UNCHANGED <<app, framed, xfocus, table, mapping, pull, palette, running>>
  BY DEF Press, Queue
<1> HIDE DEF e
<1> QED BY <1>1, <1>2, UserKeeps

(* and let go. *)
LEMMA ReleaseKeeps ==
    ASSUME WMIInv, Release
    PROVE  WMIInv'
<1> DEFINE e == Ev("release", held)
<1>1. held \in framed /\ held \in Client
  BY DEF WMIInv, WMTypeOK, ReleaseOwed, Release
<1>2. e \in WMEvent /\ e.type = "release" /\ e.c = held /\ e.type \in UserEvent /\ e.type \notin Presses
  BY <1>1 DEF Ev, WMEvent, UserEvent, Presses
<1>3. /\ wmq' = Append(wmq, e) /\ held' = NoClient /\ running
      /\ UNCHANGED <<app, framed, xfocus, table, mapping, pull, palette, running>>
  BY DEF Release, Queue
<1>4. held' = NoClient /\ e = Ev("release", held)
  BY <1>3
<1> HIDE DEF e
<1> QED BY <1>1, <1>2, <1>3, <1>4, UserKeeps

(* The pointer moves over a frame. *)
LEMMA MotionKeeps ==
    ASSUME WMIInv, NEW c \in Client, Motion(c)
    PROVE  WMIInv'
<1> DEFINE e == Ev("motion", c)
<1>1. e \in WMEvent /\ e.type = "motion" /\ e.c = c /\ e.type \in UserEvent /\ e.type \notin Presses
  BY DEF Ev, WMEvent, UserEvent, Presses
<1>2. /\ wmq' = Append(wmq, e) /\ c \in framed /\ held' = held /\ running
      /\ UNCHANGED <<app, framed, xfocus, table, mapping, pull, palette, running>>
  BY DEF Motion, Queue, server
<1>3. held \in framed \cup {NoClient}
  BY DEF WMIInv, ReleaseOwed
<1> HIDE DEF e
<1> QED BY <1>1, <1>2, <1>3, UserKeeps

(* A key that BotDesk gets. *)
LEMMA KeyKeeps ==
    ASSUME WMIInv, NEW k \in Grabbed \cup {"escape", "enter", "arrow"}, Key(k)
    PROVE  WMIInv'
<1> DEFINE e == Ev(k, NoClient)
<1>1. e \in WMEvent /\ e.type = k /\ e.c = NoClient /\ k \in UserEvent /\ k \notin Presses
  BY DEF Ev, WMEvent, UserEvent, Presses, Grabbed
<1>2. /\ wmq' = Append(wmq, e) /\ held' = held /\ running
      /\ UNCHANGED <<app, framed, xfocus, table, mapping, pull, palette, running>>
  BY DEF Key, Queue, server
<1>3. held \in framed \cup {NoClient}
  BY DEF WMIInv, ReleaseOwed
<1> HIDE DEF e
<1> QED BY <1>1, <1>2, <1>3, UserKeeps

-----------------------------------------------------------------------------
(* What BotDesk does to the focus, the palette, the drag and the programs  *)
(* it starts, without touching the table.                                  *)
LEMMA HandledKeeps ==
    ASSUME WMIInv, wmq' \in Seq(WMEvent), Events' \subseteq Events,
           \A c \in Client : Leaving(c) => Leaving(c)',
           \A c \in Client : Ev("map", c) \in Events => Ev("map", c) \in Events',
           app' \in [Client -> AppState],
           \A c \in Client : app'[c] = app[c] \/ (app[c] = "off" /\ app'[c] = "up"),
           UNCHANGED <<framed, held, slot, count, mapping, running>>,
           focused' \subseteq Slot, xfocus' \in Client \cup {Palette, Desktop, PointerRoot},
           palette' \in [active : BOOLEAN, selected : 0 .. MaxRows, matches : 0 .. MaxRows],
           palette'.matches > 0 => palette'.selected < palette'.matches,
           {drag', sizing'} \subseteq {drag, sizing, NoClient} \cup {e.c : e \in Events},
           {drag', sizing'} \subseteq Client \cup {NoClient},
           TableInv', Managed' = Managed, KeyboardOwed', ReleaseOwed'
    PROVE  WMIInv'
<1>1. WMTypeOK /\ EventsNameClients /\ ReportsQueued
  BY DEF WMIInv
<1>2. WMTypeOK'
  BY <1>1 DEF WMTypeOK
<1>3. EventsNameClients'
  BY <1>1, EventsStay
<1>4. ReportsQueued'
  <2>1. \A c \in Client : app'[c] = "asked" => app[c] = "asked"
    OBVIOUS
  <2>2. \A c \in Client : app'[c] = app[c] \/ ((running => c \notin Managed) /\ app'[c] # "gone")
    BY <1>1 DEF EventsNameClients
  <2> QED BY <1>1, <2>1, <2>2, ReportsStay, ManagedAreClients
<1> QED BY <1>2, <1>3, <1>4 DEF WMIInv

(* Starting a program. *)
LEMMA LaunchFacts ==
    ASSUME WMTypeOK, launch_app
    PROVE  /\ app' \in [Client -> AppState]
           /\ \A c \in Client : app'[c] = app[c] \/ (app[c] = "off" /\ app'[c] = "up")
BY DEF WMTypeOK, launch_app, AppState

(* Who is buried stays so. *)
LEMMA BuriedStays ==
    ASSUME UNCHANGED <<framed, mapping, running>>, NEW c \in Client,
           app'[c] = app[c] \/ app[c] = "off"
    PROVE  Buried(c) => Buried(c)'
BY DEF Buried

(* A click on the taskbar. *)
LEMMA TaskbarKeeps ==
    ASSUME WMIInv, NEW i \in Slot, TaskbarClick(i)
    PROVE  WMIInv'
<1>1. /\ WMTypeOK /\ TableInv /\ EventsNameClients /\ ReportsQueued /\ KeyboardOwed /\ ReleaseOwed
      /\ i \in Used /\ wm_set_focus(i) /\ running
      /\ UNCHANGED <<app, framed, held, wmq, slot, count, mapping, drag, sizing, palette, running>>
  BY DEF WMIInv, TaskbarClick, pull
<1>2. Longer /\ Events' = Events /\ DOMAIN wmq' = DOMAIN wmq /\ wmq' \in Seq(WMEvent)
  BY <1>1, SameIsLonger DEF WMTypeOK
<1>3. /\ TableInv' /\ Managed' = Managed /\ focused' \subseteq Slot
      /\ xfocus' \in {xfocus, slot[i]} /\ slot[i] \in Client
  BY <1>1, FocusKeepsTable, UsedFacts
<1>4. \A c \in Client : /\ Leaving(c) => Leaving(c)'
                        /\ Ev("map", c) \in Events => Ev("map", c) \in Events'
  BY <1>2, LongerKeeps
<1>5. KeyboardOwed'
  BY <1>1, <1>4, KeyboardGoes
<1>6. ReleaseOwed'
  <2>1. \A c \in Client : Buried(c) => Buried(c)'
    BY <1>1, BuriedStays
  <2>2. (~running' => framed' = {}) /\ (held' # NoClient => held' \in framed')
    BY <1>1 DEF ReleaseOwed
  <2> QED BY <1>1, <1>2, <2>1, <2>2, ReleaseStays
<1>7. /\ app' \in [Client -> AppState] /\ xfocus' \in Client \cup {Palette, Desktop, PointerRoot}
      /\ palette' \in [active : BOOLEAN, selected : 0 .. MaxRows, matches : 0 .. MaxRows]
      /\ palette'.matches > 0 => palette'.selected < palette'.matches
      /\ {drag', sizing'} \subseteq Client \cup {NoClient}
  BY <1>1, <1>3 DEF WMTypeOK
<1> QED BY <1>1, <1>2, <1>3, <1>4, <1>5, <1>6, <1>7, HandledKeeps

(* Two clicks on an icon. *)
LEMMA IconKeeps ==
    ASSUME WMIInv, IconClick
    PROVE  WMIInv'
<1>1. /\ WMTypeOK /\ TableInv /\ EventsNameClients /\ ReportsQueued /\ KeyboardOwed /\ ReleaseOwed
      /\ launch_app
      /\ UNCHANGED <<framed, xfocus, held, wmq, slot, focused, count, mapping, drag, sizing, palette, running>>
  BY DEF WMIInv, IconClick, pull, table
<1>2. Longer /\ Events' = Events /\ DOMAIN wmq' = DOMAIN wmq /\ wmq' \in Seq(WMEvent)
  BY <1>1, SameIsLonger DEF WMTypeOK
<1>3. TableInv' /\ Managed' = Managed
  BY <1>1, TableStays DEF table
<1>4. \A c \in Client : /\ Leaving(c) => Leaving(c)'
                        /\ Ev("map", c) \in Events => Ev("map", c) \in Events'
  BY <1>2, LongerKeeps
<1>5. KeyboardOwed'
  BY <1>1, <1>4, KeyboardStays
<1>6. /\ app' \in [Client -> AppState]
      /\ \A c \in Client : app'[c] = app[c] \/ (app[c] = "off" /\ app'[c] = "up")
  BY <1>1, LaunchFacts
<1>7. ReleaseOwed'
  <2>1. \A c \in Client : Buried(c) => Buried(c)'
    BY <1>1, <1>6, BuriedStays
  <2>2. (~running' => framed' = {}) /\ (held' # NoClient => held' \in framed')
    BY <1>1 DEF ReleaseOwed
  <2> QED BY <1>1, <1>2, <2>1, <2>2, ReleaseStays
<1>8. /\ xfocus' \in Client \cup {Palette, Desktop, PointerRoot} /\ focused' \subseteq Slot
      /\ palette' \in [active : BOOLEAN, selected : 0 .. MaxRows, matches : 0 .. MaxRows]
      /\ palette'.matches > 0 => palette'.selected < palette'.matches
      /\ {drag', sizing'} \subseteq Client \cup {NoClient}
  BY <1>1 DEF WMTypeOK
<1> QED BY <1>1, <1>2, <1>3, <1>4, <1>5, <1>6, <1>7, <1>8, HandledKeeps

(* BotDesk quits. *)
LEMMA QuitKeeps ==
    ASSUME WMIInv, Quit
    PROVE  WMIInv'
<1>1. /\ WMTypeOK /\ TableInv /\ EventsNameClients /\ ReportsQueued /\ KeyboardOwed /\ ReleaseOwed
      /\ running /\ running' = FALSE /\ mapping = NoClient /\ framed' = {} /\ held' = NoClient
      /\ app' = [c \in Client |-> IF c \in framed /\ Exists(c) THEN "gone" ELSE app[c]]
      /\ UNCHANGED <<xfocus, wmq, slot, focused, count, mapping, drag, sizing, palette>>
  BY DEF WMIInv, Quit, pull, table
<1>2. Longer /\ Events' = Events /\ DOMAIN wmq' = DOMAIN wmq
  BY <1>1, SameIsLonger DEF WMTypeOK
<1>3. Used' = Used /\ Managed' = Managed
  <2>1. Used' = Used
    BY <1>1 DEF Used
  <2> QED BY <1>1, <2>1 DEF Managed
<1>4. /\ app' \in [Client -> AppState] /\ app \in [Client -> AppState]
      /\ \A c \in Client : app'[c] = app[c] \/ (Exists(c) /\ app'[c] = "gone" /\ c \in framed)
  BY <1>1 DEF WMTypeOK, AppState
<1>5. WMTypeOK'
  BY <1>1, <1>4 DEF WMTypeOK
<1>6. TableInv'
  BY <1>1, <1>3 DEF TableInv
<1>7. EventsNameClients'
  <2>1. \A c \in Client : app'[c] \in {"off", "up"} => app[c] \in {"off", "up"}
    BY <1>4
  <2> QED BY <1>1, <1>2, <1>3, <2>1, EventsStay
<1>8. ReportsQueued'
  <2>1. \A c : Ev("map", c)' = Ev("map", c)
    BY DEF Ev
  <2>2. \A c \in Client : app'[c] = "asked" => app[c] = "asked"
    BY <1>4
  <2>3. \A c \in Client : mapping' # c
    BY <1>1, ManagedAreClients
  <2>4. \A c \in Client : app'[c] = "asked" => mapping' = c \/ Ev("map", c)' \in Events'
    BY <1>1, <1>2, <2>1, <2>2 DEF ReportsQueued
  <2> QED BY <1>1, <2>3, <2>4 DEF ReportsQueued
<1>9. KeyboardOwed'
  BY <1>1 DEF KeyboardOwed
<1>10. ReleaseOwed'
  <2>1. \A c \in Client : Buried(c)'
    BY <1>1 DEF Buried
  <2> QED BY <1>1, <2>1 DEF ReleaseOwed, Owed
<1> QED BY <1>5, <1>6, <1>7, <1>8, <1>9, <1>10 DEF WMIInv

(* An event of the user is handled. *)
LEMMA PoppedKeeps ==
    ASSUME WMIInv, wmq # <<>>, wmq' = Tail(wmq), running,
           Head(wmq).type \notin {"map", "unmap", "destroy"},
           app' \in [Client -> AppState],
           \A c \in Client : app'[c] = app[c] \/ (app[c] = "off" /\ app'[c] = "up"),
           UNCHANGED <<framed, held, slot, count, mapping, running>>,
           focused' \subseteq Slot, xfocus' \in Client \cup {Palette, Desktop, PointerRoot},
           palette' \in [active : BOOLEAN, selected : 0 .. MaxRows, matches : 0 .. MaxRows],
           palette'.matches > 0 => palette'.selected < palette'.matches,
           \A c \in {drag', sizing'} \ {NoClient} :
               /\ Head(wmq).type # "release"
               /\ c \in {drag, sizing} \/ (c = Head(wmq).c /\ Head(wmq).type \in Presses),
           TableInv', Managed' = Managed, KeyboardOwed'
    PROVE  WMIInv'
<1>1. WMTypeOK /\ EventsNameClients /\ ReleaseOwed
  BY DEF WMIInv
<1>2. /\ wmq' \in Seq(WMEvent) /\ Events = Events' \cup {Head(wmq)} /\ Head(wmq) \in WMEvent
  BY <1>1, QueueShrinks DEF WMTypeOK
<1>3. \A c \in Client : /\ Leaving(c) => Leaving(c)'
                        /\ Ev("map", c) \in Events => Ev("map", c) \in Events'
  BY <1>1, PopKeeps
<1>4. ReleaseOwed'
  <2>1. \A c \in Client : Buried(c) => Buried(c)'
    BY BuriedStays
  <2>2. (~running' => framed' = {}) /\ (held' # NoClient => held' \in framed')
    BY <1>1 DEF ReleaseOwed
  <2> QED BY <1>1, <2>1, <2>2, ReleasePops
<1>5. \A c \in {drag', sizing'} \ {NoClient} : c \in {drag, sizing} \/ (c = Head(wmq).c /\ c \in Client)
  BY <1>1, <1>2 DEF EventsNameClients, Presses
<1>6. {drag', sizing'} \subseteq Client \cup {NoClient}
  BY <1>1, <1>5 DEF WMTypeOK
<1>7. {drag', sizing'} \subseteq {drag, sizing, NoClient} \cup {e.c : e \in Events}
  <2>1. Head(wmq).c \in {e.c : e \in Events}
    BY <1>2
  <2> QED BY <1>5, <2>1
<1> QED BY <1>2, <1>3, <1>4, <1>6, <1>7, HandledKeeps

(* The facts of a step that takes an event of the user from the queue. *)
LEMMA ReadingFacts ==
    ASSUME WMIInv, NEW t \in SUBSET UserEvent, Reading(t), Pop
    PROVE  /\ WMTypeOK /\ TableInv /\ EventsNameClients /\ ReportsQueued /\ KeyboardOwed /\ ReleaseOwed
           /\ running /\ mapping = NoClient /\ wmq # <<>> /\ wmq' = Tail(wmq)
           /\ Head(wmq).type \in t /\ Head(wmq).type \notin {"map", "unmap", "destroy"}
           /\ \A c \in Client : Leaving(c) => Leaving(c)'
           /\ app \in [Client -> AppState]
           /\ focused \subseteq Slot /\ xfocus \in Client \cup {Palette, Desktop, PointerRoot}
           /\ palette \in [active : BOOLEAN, selected : 0 .. MaxRows, matches : 0 .. MaxRows]
           /\ palette.matches > 0 => palette.selected < palette.matches
           /\ MaxRows \in Nat
<1>1. /\ running /\ mapping = NoClient /\ wmq # <<>> /\ wmq' = Tail(wmq) /\ Head(wmq).type \in t
      /\ WMTypeOK
  BY DEF Reading, Pop, WMIInv
<1>2. Head(wmq).type \notin {"map", "unmap", "destroy"}
  BY <1>1 DEF UserEvent
<1>3. \A c \in Client : Leaving(c) => Leaving(c)'
  BY <1>1, <1>2, PopKeeps
<1> QED BY <1>1, <1>2, <1>3, WindowManagerAssumption DEF WMIInv, WMTypeOK

(* A press is handled. *)
LEMMA ButtonPressKeeps ==
    ASSUME WMIInv, wm_handle_button_press
    PROVE  WMIInv'
<1>0. Reading({"title", "close", "grip"}) /\ Pop /\ {"title", "close", "grip"} \in SUBSET UserEvent
  BY DEF wm_handle_button_press, UserEvent
<1>1. /\ UNCHANGED <<app, framed, held, slot, count, mapping, palette, running>>
      /\ IF Who \in Managed
         THEN /\ wm_set_focus(SlotOf(Who))
              /\ drag' = IF Head(wmq).type = "title" THEN Who ELSE drag
              /\ sizing' = IF Head(wmq).type = "grip" THEN Who ELSE sizing
         ELSE UNCHANGED <<focused, xfocus, drag, sizing>>
  BY DEF wm_handle_button_press, pull
<1>2. /\ TableInv' /\ Managed' = Managed /\ KeyboardOwed'
      /\ focused' \subseteq Slot /\ xfocus' \in Client \cup {Palette, Desktop, PointerRoot}
  <2>1. CASE Who \in Managed
    <3>1. SlotOf(Who) \in Used /\ slot[SlotOf(Who)] = Who
      BY <2>1, SlotOfManaged
    <3>2. Who \in Client
      BY <1>0, <2>1, ReadingFacts, ManagedAreClients
    <3>3. TableInv' /\ Managed' = Managed /\ focused' \subseteq Slot /\ xfocus' \in {xfocus, Who}
      BY <1>0, <1>1, <2>1, <3>1, ReadingFacts, FocusKeepsTable
    <3>4. KeyboardOwed'
      BY <1>0, <1>1, <2>1, <3>1, ReadingFacts, KeyboardGoes
    <3> QED BY <1>0, <3>2, <3>3, <3>4, ReadingFacts
  <2>2. CASE Who \notin Managed
    <3>1. TableInv' /\ Managed' = Managed
      BY <1>0, <1>1, <2>2, ReadingFacts, TableStays DEF table
    <3>2. KeyboardOwed'
      BY <1>0, <1>1, <2>2, ReadingFacts, KeyboardStays
    <3> QED BY <1>0, <1>1, <2>2, <3>1, <3>2, ReadingFacts
  <2> QED BY <2>1, <2>2
<1>3. \A c \in {drag', sizing'} \ {NoClient} :
         /\ Head(wmq).type # "release"
         /\ c \in {drag, sizing} \/ (c = Head(wmq).c /\ Head(wmq).type \in Presses)
  <2>1. Head(wmq).type \in Presses /\ Head(wmq).type # "release"
    BY <1>0, ReadingFacts DEF Presses
  <2> QED BY <1>1, <2>1 DEF Who
<1> QED BY <1>0, <1>1, <1>2, <1>3, ReadingFacts, PoppedKeeps

(* A motion is handled. *)
LEMMA HandleMotionKeeps ==
    ASSUME WMIInv, wm_handle_motion
    PROVE  WMIInv'
<1>0. Reading({"motion"}) /\ Pop /\ {"motion"} \in SUBSET UserEvent
  BY DEF wm_handle_motion, UserEvent
<1>1. /\ UNCHANGED <<app, framed, xfocus, held, slot, focused, count, mapping, palette, running>>
      /\ {drag', sizing'} \subseteq {drag, sizing, NoClient}
  BY DEF wm_handle_motion, pull, server, table
<1>2. TableInv' /\ Managed' = Managed
  BY <1>0, <1>1, ReadingFacts, TableStays DEF table
<1>3. KeyboardOwed'
  BY <1>0, <1>1, ReadingFacts, KeyboardStays
<1>4. Head(wmq).type # "release"
  BY <1>0, ReadingFacts
<1> QED BY <1>0, <1>1, <1>2, <1>3, <1>4, ReadingFacts, PoppedKeeps

(* A release is handled. *)
LEMMA HandleReleaseKeeps ==
    ASSUME WMIInv, wm_handle_button_release
    PROVE  WMIInv'
<1>0. Reading({"release"}) /\ Pop /\ {"release"} \in SUBSET UserEvent
  BY DEF wm_handle_button_release, UserEvent
<1>1. /\ UNCHANGED <<app, framed, xfocus, held, slot, focused, count, mapping, palette, running>>
      /\ drag' = NoClient /\ sizing' = NoClient
  BY DEF wm_handle_button_release, server, table
<1>2. TableInv' /\ Managed' = Managed
  BY <1>0, <1>1, ReadingFacts, TableStays DEF table
<1>3. KeyboardOwed'
  BY <1>0, <1>1, ReadingFacts, KeyboardStays
<1> QED BY <1>0, <1>1, <1>2, <1>3, ReadingFacts, PoppedKeeps

(* Alt+Tab is handled. *)
LEMMA TabKeeps ==
    ASSUME WMIInv, Tab
    PROVE  WMIInv'
<1>0. Reading({"tab", "backtab"}) /\ Pop /\ {"tab", "backtab"} \in SUBSET UserEvent
  BY DEF Tab, UserEvent
<1>1. UNCHANGED <<app, framed, held, slot, count, mapping, drag, sizing, palette, running>>
  BY DEF Tab, pull
<1>2. UNCHANGED <<focused, xfocus>> \/ \E i \in Used : wm_set_focus(i)
  <2>1. CASE palette.active
    BY <2>1 DEF Tab
  <2>2. CASE ~palette.active
    <3> DEFINE cur == IF focused = {} THEN -1 ELSE First(focused)
               At(s) == IF Head(wmq).type = "tab" THEN (cur + s) % MaxWindows
                                                  ELSE (cur - s + MaxWindows) % MaxWindows
               steps == {s \in 1 .. MaxWindows : At(s) \in Used \ {cur}}
    <3>1. wm_cycle_focus(Head(wmq).type = "tab")
      BY <2>2 DEF Tab
    <3>2. IF steps = {} THEN UNCHANGED <<focused, xfocus>> ELSE wm_set_focus(At(First(steps)))
      BY <3>1 DEF wm_cycle_focus
    <3>3. steps \subseteq Nat
      BY WindowManagerAssumption
    <3>4. CASE steps # {}
      <4>1. First(steps) \in steps
        BY <3>3, <3>4, FirstIsLeast
      <4> QED BY <3>2, <3>4, <4>1
    <3> QED BY <3>2, <3>4
  <2> QED BY <2>1, <2>2
<1>3. /\ TableInv' /\ Managed' = Managed /\ KeyboardOwed'
      /\ focused' \subseteq Slot /\ xfocus' \in Client \cup {Palette, Desktop, PointerRoot}
  <2>1. CASE UNCHANGED <<focused, xfocus>>
    <3>1. TableInv' /\ Managed' = Managed
      BY <1>0, <1>1, <2>1, ReadingFacts, TableStays DEF table
    <3>2. KeyboardOwed'
      BY <1>0, <1>1, <2>1, ReadingFacts, KeyboardStays
    <3> QED BY <1>0, <2>1, <3>1, <3>2, ReadingFacts
  <2>2. ASSUME NEW i \in Used, wm_set_focus(i)
        PROVE  /\ TableInv' /\ Managed' = Managed /\ KeyboardOwed'
               /\ focused' \subseteq Slot /\ xfocus' \in Client \cup {Palette, Desktop, PointerRoot}
    <3>1. TableInv' /\ Managed' = Managed /\ focused' \subseteq Slot /\ xfocus' \in {xfocus, slot[i]}
      BY <1>0, <1>1, <2>2, ReadingFacts, FocusKeepsTable
    <3>2. KeyboardOwed'
      BY <1>0, <1>1, <2>2, ReadingFacts, KeyboardGoes
    <3>3. slot[i] \in Client
      BY <1>0, ReadingFacts, UsedFacts
    <3> QED BY <1>0, <3>1, <3>2, <3>3, ReadingFacts
  <2> QED BY <1>2, <2>1, <2>2
<1>4. \A c \in {drag', sizing'} \ {NoClient} :
         Head(wmq).type # "release" /\ c \in {drag, sizing}
  BY <1>0, <1>1, ReadingFacts
<1> QED BY <1>0, <1>1, <1>3, <1>4, ReadingFacts, PoppedKeeps

(* A key to the palette leaves the table and the focus alone. *)
LEMMA PaletteKeyKeeps ==
    ASSUME WMIInv, NEW t \in SUBSET UserEvent, Reading(t), Pop, "release" \notin t,
           UNCHANGED <<framed, held, slot, focused, count, mapping, drag, sizing, running>>,
           app' \in [Client -> AppState],
           \A c \in Client : app'[c] = app[c] \/ (app[c] = "off" /\ app'[c] = "up"),
           xfocus' \in Client \cup {Palette, Desktop, PointerRoot},
           palette' \in [active : BOOLEAN, selected : 0 .. MaxRows, matches : 0 .. MaxRows],
           palette'.matches > 0 => palette'.selected < palette'.matches,
           KeyboardOwed'
    PROVE  WMIInv'
<1>1. TableInv' /\ Managed' = Managed
  BY ReadingFacts, TableStays DEF table
<1>2. \A c \in {drag', sizing'} \ {NoClient} :
         Head(wmq).type # "release" /\ c \in {drag, sizing}
  BY ReadingFacts
<1>3. focused' \subseteq Slot
  BY ReadingFacts
<1> QED BY <1>1, <1>2, <1>3, ReadingFacts, PoppedKeeps

(* The palette is opened, or gets a space. *)
LEMMA SpaceKeeps ==
    ASSUME WMIInv, Space
    PROVE  WMIInv'
<1>0. Reading({"space"}) /\ Pop /\ {"space"} \in SUBSET UserEvent /\ "release" \notin {"space"}
  BY DEF Space, UserEvent
<1>1. UNCHANGED <<app, framed, held, slot, focused, count, mapping, drag, sizing, running>>
  BY DEF Space, table, pull
<1>2. CASE palette.active
  <2>1. /\ xfocus' = xfocus /\ palette'.active = palette.active
        /\ palette' \in [active : BOOLEAN, selected : 0 .. MaxRows, matches : 0 .. MaxRows]
        /\ palette'.matches > 0 => palette'.selected < palette'.matches
    <3>1. \/ palette' = palette
          \/ \E n \in 0 .. MaxRows : palette' = [palette EXCEPT !.selected = 0, !.matches = n]
      BY <1>2 DEF Space
    <3>2. CASE palette' = palette
      BY <1>0, <1>2, <3>2, ReadingFacts DEF Space
    <3>3. ASSUME NEW n \in 0 .. MaxRows, palette' = [palette EXCEPT !.selected = 0, !.matches = n]
          PROVE  /\ palette'.active = palette.active
                 /\ palette' \in [active : BOOLEAN, selected : 0 .. MaxRows, matches : 0 .. MaxRows]
                 /\ palette'.matches > 0 => palette'.selected < palette'.matches
      <4>1. palette' = [active |-> palette.active, selected |-> 0, matches |-> n] /\ palette.active \in BOOLEAN
        BY <1>0, <3>3, ReadingFacts
      <4>2. MaxRows \in Nat /\ 0 \in 0 .. MaxRows /\ n \in 0 .. MaxRows
        BY WindowManagerAssumption
      <4> QED BY <4>1, <4>2
    <3> QED BY <1>2, <3>1, <3>2, <3>3 DEF Space
  <2>2. KeyboardOwed'
    BY <1>0, <1>1, <1>2, <2>1, ReadingFacts, KeyboardStays
  <2>3. xfocus' \in Client \cup {Palette, Desktop, PointerRoot}
    BY <1>0, <2>1, ReadingFacts
  <2>4. app' \in [Client -> AppState] /\ \A c \in Client : app'[c] = app[c]
    BY <1>0, <1>1, ReadingFacts
  <2> QED BY <1>0, <1>1, <2>1, <2>2, <2>3, <2>4, PaletteKeyKeeps
<1>3. CASE ~palette.active
  <2>1. palette' = [active |-> TRUE, selected |-> 0, matches |-> MaxRows] /\ xfocus' = Palette
    BY <1>3 DEF Space
  <2>2. KeyboardOwed'
    BY <2>1 DEF KeyboardOwed
  <2>3. app' \in [Client -> AppState] /\ \A c \in Client : app'[c] = app[c]
    BY <1>0, <1>1, ReadingFacts
  <2>4. /\ palette' \in [active : BOOLEAN, selected : 0 .. MaxRows, matches : 0 .. MaxRows]
        /\ palette'.matches > 0 => palette'.selected < palette'.matches
    BY <1>0, <2>1, ReadingFacts
  <2> QED BY <1>0, <1>1, <2>1, <2>2, <2>3, <2>4, PaletteKeyKeeps
<1> QED BY <1>2, <1>3

(* The query or the selection changes. *)
LEMMA PaletteEditKeeps ==
    ASSUME WMIInv, PaletteEdit
    PROVE  WMIInv'
<1>0. Reading({"text", "arrow"}) /\ Pop /\ {"text", "arrow"} \in SUBSET UserEvent
      /\ "release" \notin {"text", "arrow"}
  BY DEF PaletteEdit, UserEvent
<1>1. UNCHANGED <<app, framed, xfocus, held, slot, focused, count, mapping, drag, sizing, running>>
  BY DEF PaletteEdit, server, table, pull
<1>2. /\ palette'.active = palette.active
      /\ palette' \in [active : BOOLEAN, selected : 0 .. MaxRows, matches : 0 .. MaxRows]
      /\ palette'.matches > 0 => palette'.selected < palette'.matches
  <2>1. \/ palette' = palette
        \/ \E n \in 0 .. MaxRows : palette' = [palette EXCEPT !.selected = 0, !.matches = n]
        \/ \E s \in {palette.selected - 1, palette.selected + 1} :
              palette' = [palette EXCEPT !.selected = IF s \in 0 .. palette.matches - 1 THEN s ELSE @]
    BY DEF PaletteEdit
  <2>2. CASE palette' = palette
    BY <1>0, <2>2, ReadingFacts
  <2>3. ASSUME NEW n \in 0 .. MaxRows, palette' = [palette EXCEPT !.selected = 0, !.matches = n]
        PROVE  /\ palette'.active = palette.active
               /\ palette' \in [active : BOOLEAN, selected : 0 .. MaxRows, matches : 0 .. MaxRows]
               /\ palette'.matches > 0 => palette'.selected < palette'.matches
    <3>1. palette' = [active |-> palette.active, selected |-> 0, matches |-> n] /\ palette.active \in BOOLEAN
      BY <1>0, <2>3, ReadingFacts
    <3>2. MaxRows \in Nat /\ 0 \in 0 .. MaxRows /\ n \in 0 .. MaxRows
      BY WindowManagerAssumption
    <3> QED BY <3>1, <3>2
  <2>4. ASSUME NEW s \in Int,
               palette' = [palette EXCEPT !.selected = IF s \in 0 .. palette.matches - 1 THEN s ELSE @]
        PROVE  /\ palette'.active = palette.active
               /\ palette' \in [active : BOOLEAN, selected : 0 .. MaxRows, matches : 0 .. MaxRows]
               /\ palette'.matches > 0 => palette'.selected < palette'.matches
    BY <1>0, <2>4, ReadingFacts
  <2>5. palette.selected - 1 \in Int /\ palette.selected + 1 \in Int
    BY <1>0, ReadingFacts
  <2> QED BY <2>1, <2>2, <2>3, <2>4, <2>5
<1>3. KeyboardOwed'
  BY <1>0, <1>1, <1>2, ReadingFacts, KeyboardStays
<1>4. /\ app' \in [Client -> AppState] /\ \A c \in Client : app'[c] = app[c]
      /\ xfocus' \in Client \cup {Palette, Desktop, PointerRoot}
  BY <1>0, <1>1, ReadingFacts
<1> QED BY <1>0, <1>1, <1>2, <1>3, <1>4, PaletteKeyKeeps

(* The palette is closed, and may start a program. *)
LEMMA PaletteDoneKeeps ==
    ASSUME WMIInv, PaletteDone
    PROVE  WMIInv'
<1>0. Reading({"escape", "enter"}) /\ Pop /\ {"escape", "enter"} \in SUBSET UserEvent
      /\ "release" \notin {"escape", "enter"}
  BY DEF PaletteDone, UserEvent
<1>1. UNCHANGED <<framed, held, slot, focused, count, mapping, drag, sizing, running>>
  BY DEF PaletteDone, table, pull
<1>2. /\ app' \in [Client -> AppState]
      /\ \A c \in Client : app'[c] = app[c] \/ (app[c] = "off" /\ app'[c] = "up")
  <2>1. launch_app \/ UNCHANGED app
    BY DEF PaletteDone
  <2>2. CASE UNCHANGED app
    BY <1>0, <2>2, ReadingFacts
  <2>3. CASE launch_app
    BY <1>0, <2>3, ReadingFacts, LaunchFacts
  <2> QED BY <2>1, <2>2, <2>3
<1>3. CASE palette.active
  <2>1. /\ palette' = Closed
        /\ xfocus' = IF focused = {} THEN Desktop
                     ELSE LET c == slot[First(focused)] IN
                          IF Viewable(c) THEN c ELSE FocusWithout({Palette})
    BY <1>3 DEF PaletteDone, palette_close
  <2>2. /\ palette' \in [active : BOOLEAN, selected : 0 .. MaxRows, matches : 0 .. MaxRows]
        /\ palette'.matches > 0 => palette'.selected < palette'.matches
    BY <1>0, <2>1, ReadingFacts DEF Closed
  <2>3. focused # {} => First(focused) \in focused /\ First(focused) \in Used
    BY <1>0, ReadingFacts, FirstIsLeast, SlotsAreFinite DEF TableInv
  <2>4. focused # {} => /\ slot[First(focused)] \in Client
                        /\ slot[First(focused)] \in Managed
    BY <1>0, <2>3, ReadingFacts, UsedFacts
  <2>5. xfocus' \in Client \cup {Palette, Desktop, PointerRoot}
    BY <1>0, <2>1, <2>4, ReadingFacts DEF FocusWithout
  <2>6. KeyboardOwed'
    <3>1. CASE Used = {}
      <4>1. Used' = {}
        BY <1>1, <3>1 DEF Used
      <4> QED BY <4>1 DEF KeyboardOwed
    <3>2. CASE Used # {}
      <4>1. focused # {}
        BY <1>0, <3>2, ReadingFacts DEF TableInv
      <4>0. PICK c \in Client : c = slot[First(focused)]
        BY <2>4, <4>1
      <4>2. Viewable(c) \/ Leaving(c)
        BY <1>0, <2>4, <4>0, <4>1, ReadingFacts DEF ReportsQueued, Viewable
      <4>3. c \in {slot[i] : i \in focused}'
        BY <1>1, <2>3, <4>0, <4>1
      <4>4. xfocus' = c \/ Leaving(c)'
        <5>1. CASE Viewable(c)
          BY <2>1, <4>0, <4>1, <5>1
        <5>2. CASE Leaving(c)
          BY <1>0, <5>2, ReadingFacts
        <5> QED BY <4>2, <5>1, <5>2
      <4> QED BY <4>3, <4>4 DEF KeyboardOwed
    <3> QED BY <3>1, <3>2
  <2> QED BY <1>0, <1>1, <1>2, <2>2, <2>5, <2>6, PaletteKeyKeeps
<1>4. CASE ~palette.active
  <2>1. UNCHANGED <<palette, xfocus>>
    BY <1>4 DEF PaletteDone
  <2>2. KeyboardOwed'
    BY <1>0, <1>1, <2>1, ReadingFacts, KeyboardStays
  <2> QED BY <1>0, <1>1, <1>2, <2>1, <2>2, ReadingFacts, PaletteKeyKeeps
<1> QED BY <1>3, <1>4

-----------------------------------------------------------------------------
(* The facts of a step that takes a report of the X server from the queue. *)
LEMMA ReportFacts ==
    ASSUME WMIInv, NEW t \in SUBSET {"map", "unmap", "destroy"}, Reading(t), Pop
    PROVE  /\ WMTypeOK /\ TableInv /\ EventsNameClients /\ ReportsQueued /\ KeyboardOwed /\ ReleaseOwed
           /\ running /\ mapping = NoClient /\ wmq # <<>> /\ wmq' = Tail(wmq) /\ wmq' \in Seq(WMEvent)
           /\ Head(wmq) \in WMEvent /\ Head(wmq).type \in t /\ Who \in Client /\ NoClient \notin Client
           /\ Events = Events' \cup {Head(wmq)} /\ Who \in {e.c : e \in Events}
           /\ app[Who] \notin {"off", "up"} /\ app \in [Client -> AppState]
           /\ \A c \in Client : c # Who => /\ Leaving(c) => Leaving(c)'
                                           /\ Ev("map", c) \in Events => Ev("map", c) \in Events'
<1>1. /\ WMTypeOK /\ TableInv /\ EventsNameClients /\ ReportsQueued /\ KeyboardOwed /\ ReleaseOwed
      /\ running /\ mapping = NoClient /\ wmq # <<>> /\ wmq' = Tail(wmq) /\ Head(wmq).type \in t
  BY DEF Reading, Pop, WMIInv
<1>2. wmq' \in Seq(WMEvent) /\ Events = Events' \cup {Head(wmq)} /\ Head(wmq) \in WMEvent
  BY <1>1, QueueShrinks DEF WMTypeOK
<1>3. Who \in Client /\ Head(wmq).c = Who
  BY <1>1, <1>2 DEF EventsNameClients, Who
<1>4. Who \in {e.c : e \in Events}
  BY <1>2, <1>3
<1>5. app[Who] \notin {"off", "up"} /\ app \in [Client -> AppState]
  BY <1>1, <1>2, <1>3 DEF EventsNameClients, WMTypeOK
<1>6. ASSUME NEW c \in Client, c # Who
      PROVE  /\ Leaving(c) => Leaving(c)'
             /\ Ev("map", c) \in Events => Ev("map", c) \in Events'
  <2>1. \A u : Ev(u, c) # Head(wmq) /\ Ev(u, c)' = Ev(u, c)
    BY <1>3, <1>6 DEF Ev
  <2> QED BY <1>2, <2>1 DEF Leaving
<1> QED BY <1>1, <1>2, <1>3, <1>4, <1>5, <1>6, ManagedAreClients

(* A request to show a window is handled. *)
LEMMA MapKeeps ==
    ASSUME WMIInv, wm_handle_map_request
    PROVE  WMIInv'
<1>0. Reading({"map"}) /\ Pop /\ {"map"} \in SUBSET {"map", "unmap", "destroy"}
  BY DEF wm_handle_map_request
<1>1. UNCHANGED <<framed, xfocus, held, slot, focused, count, drag, sizing, palette, running>>
  BY DEF wm_handle_map_request, table, pull
<1>2. /\ app' \in [Client -> AppState]
      /\ \A d \in Client : app'[d] = app[d]
                         \/ (d = Who /\ app[d] \in {"asked", "hidden"} /\ app'[d] = "shown")
      /\ mapping' \in {NoClient, Who}
      /\ mapping' = Who => Who \notin Managed /\ count < MaxWindows /\ Exists(Who) /\ app' = app
      /\ app'[Who] = "asked" => mapping' = Who
  <2>1. CASE Who \in Managed \/ count >= MaxWindows
    <3>1. /\ app' = IF app[Who] \in {"asked", "hidden"} THEN [app EXCEPT ![Who] = "shown"] ELSE app
          /\ mapping' = mapping
      BY <2>1 DEF wm_handle_map_request
    <3> QED BY <1>0, <3>1, ReportFacts DEF AppState
  <2>2. CASE ~(Who \in Managed \/ count >= MaxWindows)
    <3>1. mapping' = (IF Exists(Who) THEN Who ELSE NoClient) /\ app' = app
      BY <2>2 DEF wm_handle_map_request
    <3>2. count < MaxWindows
      BY <1>0, <2>2, ReportFacts, WindowManagerAssumption DEF WMTypeOK
    <3> QED BY <1>0, <2>2, <3>1, <3>2, ReportFacts DEF Exists
  <2> QED BY <2>1, <2>2
<1>3. WMTypeOK'
  BY <1>0, <1>1, <1>2, ReportFacts DEF WMTypeOK
<1>4. Used' = Used /\ Managed' = Managed
  <2>1. Used' = Used
    BY <1>1 DEF Used
  <2> QED BY <1>1, <2>1 DEF Managed
<1>5. TableInv'
  BY <1>0, <1>1, <1>2, <1>4, ReportFacts DEF TableInv
<1>6. EventsNameClients'
  <2>1. \A d \in Client : app'[d] \in {"off", "up"} => app[d] \in {"off", "up"}
    BY <1>2
  <2> QED BY <1>0, <1>1, <1>2, <1>4, <2>1, ReportFacts, EventsStay
<1>7. \A d \in Client : Leaving(d) => Leaving(d)'
  BY <1>0, ReportFacts DEF Leaving, Ev
<1>8. ReportsQueued'
  <2>0. \A d : Ev("map", d)' = Ev("map", d)
    BY DEF Ev
  <2>1. \A d \in Client : app'[d] = "asked" => mapping' = d \/ Ev("map", d)' \in Events'
    BY <1>0, <1>2, <2>0, ReportFacts DEF ReportsQueued
  <2>2. \A d \in Managed : app'[d] = "shown" \/ (app'[d] \in {"hidden", "gone"} /\ Leaving(d)')
    BY <1>0, <1>2, <1>7, ReportFacts, ManagedAreClients DEF ReportsQueued
  <2>3. \A d \in Client : mapping' = d => running' /\ app'[d] # "gone"
    BY <1>0, <1>1, <1>2, ReportFacts DEF Exists
  <2> QED BY <1>4, <2>1, <2>2, <2>3 DEF ReportsQueued
<1>9. KeyboardOwed'
  BY <1>0, <1>1, <1>7, ReportFacts, KeyboardStays
<1>10. ReleaseOwed'
  <2>1. \A d \in Client : Buried(d) => Buried(d)'
    BY <1>0, <1>1, <1>2, ReportFacts DEF Buried, Exists
  <2>2. (~running' => framed' = {}) /\ (held' # NoClient => held' \in framed')
    BY <1>0, <1>1, ReportFacts DEF ReleaseOwed
  <2>3. Head(wmq).type # "release"
    BY <1>0, ReportFacts
  <2> QED BY <1>0, <1>1, <2>1, <2>2, <2>3, ReportFacts, ReleasePops
<1> QED BY <1>3, <1>5, <1>6, <1>8, <1>9, <1>10 DEF WMIInv

(* A window is put into its frame. *)
LEMMA ManageKeeps ==
    ASSUME WMIInv, Manage
    PROVE  WMIInv'
<1>1. /\ WMTypeOK /\ TableInv /\ EventsNameClients /\ ReportsQueued /\ KeyboardOwed /\ ReleaseOwed
      /\ running /\ mapping \in Client /\ mapping' = NoClient /\ framed' = framed \cup {mapping}
      /\ app' = IF Exists(mapping) THEN [app EXCEPT ![mapping] = "shown"] ELSE app
      /\ UNCHANGED <<held, wmq, drag, sizing, palette, running>>
      /\ NoClient \notin Client
  BY ManagedAreClients DEF WMIInv, Manage, pull, WMTypeOK
<1>2. PICK i \in Slot \ Used :
        /\ Used' = Used \cup {i} /\ Managed' = Managed \cup {mapping}
        /\ slot'[i] = mapping /\ focused' = {i}
        /\ xfocus' = IF Viewable(mapping) THEN mapping ELSE xfocus
        /\ TableInv'
        /\ slot' \in [Slot -> Client \cup {NoClient}] /\ count' \in Nat
  BY <1>1, ManageKeepsTable
<1>3. /\ app' \in [Client -> AppState] /\ app \in [Client -> AppState]
      /\ \A d \in Client : d # mapping => app'[d] = app[d]
      /\ app'[mapping] = "shown" \/ (app'[mapping] = "gone" /\ app[mapping] = "gone")
  BY <1>1 DEF WMTypeOK, AppState, Exists, EventsNameClients
<1>4. Longer /\ Events' = Events /\ DOMAIN wmq' = DOMAIN wmq
  BY <1>1, SameIsLonger DEF WMTypeOK
<1>5. WMTypeOK'
  BY <1>1, <1>2, <1>3 DEF WMTypeOK
<1>6. EventsNameClients'
  <2>1. \A d \in Client : app'[d] \in {"off", "up"} => app[d] \in {"off", "up"}
    BY <1>3
  <2> QED BY <1>1, <1>2, <1>4, <2>1, EventsStay
<1>7. \A d \in Client : Leaving(d) => Leaving(d)'
  BY <1>4, LongerKeeps
<1>8. ReportsQueued'
  <2>0. \A d : Ev("map", d)' = Ev("map", d)
    BY DEF Ev
  <2>1. \A d \in Client : app'[d] = "asked" => mapping' = d \/ Ev("map", d)' \in Events'
    BY <1>1, <1>3, <1>4, <2>0 DEF ReportsQueued
  <2>2. \A d \in Managed : app'[d] = "shown" \/ (app'[d] \in {"hidden", "gone"} /\ Leaving(d)')
    BY <1>1, <1>3, <1>7, ManagedAreClients DEF ReportsQueued
  <2>6. PICK c \in Client : c = mapping
    BY <1>1
  <2>3. app'[c] = "shown" \/ (app'[c] = "gone" /\ Leaving(c)')
    BY <1>1, <1>3, <1>7, <2>6 DEF ReportsQueued
  <2>4. \A d \in Managed' : app'[d] = "shown" \/ (app'[d] \in {"hidden", "gone"} /\ Leaving(d)')
    BY <1>2, <2>2, <2>3, <2>6
  <2>5. \A d \in Client : mapping' # d
    BY <1>1
  <2> QED BY <2>1, <2>4, <2>5 DEF ReportsQueued
<1>9. KeyboardOwed'
  <2>1. Viewable(mapping) \/ Leaving(mapping)
    BY <1>1, <1>3 DEF ReportsQueued, Viewable, Exists
  <2>2. PICK c \in Client : c = mapping
    BY <1>1
  <2>3. c \in {slot[j] : j \in focused}' /\ (xfocus' = c \/ Leaving(c)')
    BY <1>2, <1>7, <2>1, <2>2
  <2> QED BY <2>3 DEF KeyboardOwed
<1>10. ReleaseOwed'
  <2>1. \A d \in Client : Buried(d) => Buried(d)'
    BY <1>1, <1>3 DEF Buried
  <2>2. (~running' => framed' = {}) /\ (held' # NoClient => held' \in framed')
    BY <1>1 DEF ReleaseOwed
  <2> QED BY <1>1, <1>4, <2>1, <2>2, ReleaseStays
<1> QED BY <1>2, <1>5, <1>6, <1>8, <1>9, <1>10 DEF WMIInv

(* A window that is hidden or destroyed leaves the table. *)
LEMMA UnmapDestroyKeeps ==
    ASSUME WMIInv, wm_handle_unmap_destroy
    PROVE  WMIInv'
<1>0. Reading({"unmap", "destroy"}) /\ Pop /\ {"unmap", "destroy"} \in SUBSET {"map", "unmap", "destroy"}
  BY DEF wm_handle_unmap_destroy
<1>1. UNCHANGED <<mapping, drag, sizing, palette, running>>
  BY DEF wm_handle_unmap_destroy, pull
<1>2. Head(wmq).type \notin {"map", "release"}
  BY <1>0, ReportFacts
<1>3. PICK w \in Client : w = Who
  BY <1>0, ReportFacts
<1>4. \A c \in Client : Ev("map", c) \in Events => Ev("map", c)' \in Events'
  <2>1. \A c : Ev("map", c) # Head(wmq) /\ Ev("map", c)' = Ev("map", c)
    BY <1>2 DEF Ev
  <2> QED BY <1>0, <2>1, ReportFacts
<1>5. CASE Who \notin Managed
  <2>1. UNCHANGED <<app, framed, xfocus, held, slot, focused, count>>
    BY <1>5 DEF wm_handle_unmap_destroy, server, table
  <2>2. WMTypeOK'
    BY <1>0, <1>1, <2>1, ReportFacts DEF WMTypeOK
  <2>3. TableInv' /\ Used' = Used /\ Managed' = Managed
    BY <1>0, <1>1, <2>1, ReportFacts, TableStays DEF table
  <2>4. EventsNameClients'
    BY <1>0, <1>1, <2>1, <2>3, ReportFacts, EventsStay
  <2>5. \A c \in Managed : c # Who /\ c \in Client
    BY <1>0, <1>5, ReportFacts, ManagedAreClients
  <2>6. ReportsQueued'
    <3>1. \A c \in Client : mapping # c
      BY <1>0, ReportFacts
    <3>2. \A c \in Client : app'[c] = "asked" => Ev("map", c)' \in Events'
      BY <1>0, <1>4, <2>1, <3>1, ReportFacts DEF ReportsQueued
    <3>3. \A c \in Managed : app'[c] = "shown" \/ (app'[c] \in {"hidden", "gone"} /\ Leaving(c)')
      BY <1>0, <2>1, <2>5, ReportFacts DEF ReportsQueued
    <3> QED BY <1>1, <2>3, <3>1, <3>2, <3>3 DEF ReportsQueued
  <2>7. KeyboardOwed'
    <3>1. CASE ~palette.active /\ Used # {}
      <4>1. PICK c \in {slot[i] : i \in focused} : xfocus = c \/ Leaving(c)
        BY <1>0, <3>1, ReportFacts DEF KeyboardOwed
      <4>2. c \in Managed /\ c \in {slot[i] : i \in focused}'
        BY <1>0, <2>1, <4>1, ReportFacts, UsedFacts DEF TableInv
      <4>3. xfocus' = c \/ Leaving(c)'
        BY <1>0, <2>1, <2>5, <4>1, <4>2, ReportFacts
      <4> QED BY <4>2, <4>3 DEF KeyboardOwed
    <3>2. CASE ~(~palette.active /\ Used # {})
      BY <1>1, <2>3, <3>2 DEF KeyboardOwed
    <3> QED BY <3>1, <3>2
  <2>8. ReleaseOwed'
    <3>1. \A c \in Client : Buried(c) => Buried(c)'
      BY <1>1, <2>1 DEF Buried
    <3>2. (~running' => framed' = {}) /\ (held' # NoClient => held' \in framed')
      BY <1>0, <1>1, <2>1, ReportFacts DEF ReleaseOwed
    <3> QED BY <1>0, <1>1, <1>2, <2>1, <3>1, <3>2, ReportFacts, ReleasePops
  <2> QED BY <2>2, <2>3, <2>4, <2>6, <2>7, <2>8 DEF WMIInv
<1>6. CASE Who \in Managed
  <2>1. PICK i \in Used : slot[i] = w /\ wm_remove_managed(i)
    BY <1>3, <1>6, SlotOfManaged DEF wm_handle_unmap_destroy
  <2>2. /\ framed' = framed \ {w} /\ held' = IF held = w THEN NoClient ELSE held
        /\ app' = IF Exists(w) /\ w \in framed THEN [app EXCEPT ![w] = "gone"] ELSE app
        /\ framed = Managed /\ w \in framed
    BY <1>0, <1>3, <1>6, <2>1, ReportFacts DEF wm_remove_managed, TableInv
  <2>3. /\ Used' = Used \ {i} /\ Managed' = Managed \ {w}
        /\ \A j \in Used' : slot'[j] = slot[j]
        /\ TableInv'
        /\ slot' \in [Slot -> Client \cup {NoClient}] /\ focused' \subseteq Slot /\ count' \in Nat
    BY <1>0, <1>1, <2>1, ReportFacts, RemoveKeepsTable
  <2>4. /\ app' \in [Client -> AppState] /\ app'[w] = "gone"
        /\ \A c \in Client : c # w => app'[c] = app[c]
    BY <1>0, <1>3, <2>2, ReportFacts DEF AppState, Exists
  <2>5. KeyboardOwed' /\ xfocus' \in Client \cup {Palette, Desktop, PointerRoot}
    <3>0. CASE i \in focused /\ Used \ {i} # {}
      <4>1. First(Used \ {i}) \in Used \ {i}
        BY <3>0, UsedAreFinite, FirstIsLeast
      <4>2. PICK j \in Used \ {i} : j = First(Used \ {i})
        BY <4>1
      <4>3. PICK c \in Client : c = slot[j] /\ c \in Managed /\ c # w
        BY <1>0, <2>1, <4>2, ReportFacts, UsedFacts DEF TableInv
      <4>4. focused' = {j} /\ xfocus' = IF Viewable(c) THEN c ELSE FocusWithout({w})
        BY <2>1, <3>0, <4>2, <4>3 DEF wm_remove_managed
      <4>5. xfocus' = c \/ Leaving(c)'
        <5>1. Viewable(c) \/ Leaving(c)
          BY <1>0, <4>3, ReportFacts DEF ReportsQueued, Viewable
        <5> QED BY <1>0, <1>3, <4>3, <4>4, <5>1, ReportFacts
      <4>6. c \in {slot[k] : k \in focused}'
        BY <2>3, <4>2, <4>3, <4>4
      <4>7. xfocus' \in Client \cup {Palette, Desktop, PointerRoot}
        BY <1>0, <4>4, ReportFacts DEF WMTypeOK, FocusWithout
      <4> QED BY <4>5, <4>6, <4>7 DEF KeyboardOwed
    <3>1. CASE ~(i \in focused /\ Used \ {i} # {})
      <4>1. focused' = focused \ {i} /\ xfocus' = FocusWithout({w})
        BY <2>1, <3>1 DEF wm_remove_managed
      <4>2. xfocus' \in Client \cup {Palette, Desktop, PointerRoot}
        BY <1>0, <4>1, ReportFacts DEF WMTypeOK, FocusWithout
      <4>3. CASE ~palette.active /\ Used \ {i} # {}
        <5>1. PICK k \in focused : xfocus = slot[k] \/ Leaving(slot[k])
          BY <1>0, <4>3, ReportFacts DEF KeyboardOwed
        <5>2. k \in Used \ {i} /\ k \in focused'
          BY <1>0, <3>1, <4>1, <4>3, <5>1, ReportFacts DEF TableInv
        <5>3. PICK c \in Client : c = slot[k] /\ c # w
          BY <1>0, <2>1, <5>2, ReportFacts, UsedFacts DEF TableInv
        <5>4. xfocus' = c \/ Leaving(c)'
          BY <1>0, <1>3, <4>1, <5>1, <5>3, ReportFacts DEF FocusWithout
        <5>5. c \in {slot[j] : j \in focused}'
          BY <2>3, <5>2, <5>3
        <5> QED BY <4>2, <5>4, <5>5 DEF KeyboardOwed
      <4>4. CASE ~(~palette.active /\ Used \ {i} # {})
        BY <1>1, <2>3, <4>2, <4>4 DEF KeyboardOwed
      <4> QED BY <4>3, <4>4
    <3> QED BY <3>0, <3>1
  <2>6. WMTypeOK'
    BY <1>0, <1>1, <2>2, <2>3, <2>4, <2>5, ReportFacts DEF WMTypeOK
  <2>7. EventsNameClients'
    <3>1. \A c \in Client : app'[c] \in {"off", "up"} => app[c] \in {"off", "up"}
      BY <2>4
    <3> QED BY <1>0, <1>1, <2>3, <3>1, ReportFacts, EventsStay
  <2>8. ReportsQueued'
    <3>1. \A c \in Client : mapping # c
      BY <1>0, ReportFacts
    <3>2. \A c \in Client : app'[c] = "asked" => Ev("map", c)' \in Events'
      BY <1>0, <1>4, <2>4, <3>1, ReportFacts DEF ReportsQueued
    <3>3. \A c \in Managed : c # w => app'[c] = "shown" \/ (app'[c] \in {"hidden", "gone"} /\ Leaving(c)')
      BY <1>0, <1>3, <2>4, ReportFacts, ManagedAreClients DEF ReportsQueued
    <3> QED BY <1>1, <2>3, <3>1, <3>2, <3>3 DEF ReportsQueued
  <2>9. ReleaseOwed'
    <3>1. Buried(w)'
      BY <1>0, <1>1, <1>3, <2>2, <2>4, ReportFacts DEF Buried
    <3>2. \A c \in Client : Buried(c) => Buried(c)'
      BY <1>0, <1>1, <2>2, <2>4, <3>1, ReportFacts DEF Buried
    <3>3. (~running' => framed' = {}) /\ (held' # NoClient => held' \in framed')
      BY <1>0, <1>1, <2>2, ReportFacts DEF ReleaseOwed
    <3>4. \A c \in Client : held = c => held' = c \/ Buried(c)'
      BY <2>2, <3>1
    <3> QED BY <1>0, <1>1, <1>2, <3>2, <3>3, <3>4, ReportFacts, ReleasePops
  <2> QED BY <2>3, <2>5, <2>6, <2>7, <2>8, <2>9 DEF WMIInv
<1> QED BY <1>5, <1>6

-----------------------------------------------------------------------------
(* At first nothing is managed and nothing is queued. *)
LEMMA InitOwesNothing == WMInit => WMIInv
<1> SUFFICES ASSUME WMInit PROVE WMIInv
  OBVIOUS
<1>1. NoClient \notin Client /\ MaxRows \in Nat
  BY WindowManagerAssumption
<1>2. WMTypeOK
  BY <1>1 DEF WMInit, WMTypeOK, Closed, AppState
<1>3. Used = {} /\ Managed = {} /\ Events = {} /\ DOMAIN wmq = {}
  <2>1. Used = {}
    BY DEF WMInit, Used
  <2>2. DOMAIN wmq = {}
    BY DEF WMInit
  <2> QED BY <2>1, <2>2 DEF Managed, Events
<1>4. TableInv
  <2>1. Cardinality({}) = 0
    BY FS_EmptySet
  <2> QED BY <1>3, <2>1 DEF WMInit, TableInv
<1>5. EventsNameClients
  BY <1>1, <1>3 DEF WMInit, EventsNameClients
<1>6. ReportsQueued
  BY <1>1, <1>3 DEF WMInit, ReportsQueued
<1>7. KeyboardOwed
  BY <1>3 DEF KeyboardOwed
<1>8. ReleaseOwed
  BY <1>1, <1>3 DEF WMInit, ReleaseOwed
<1> QED BY <1>2, <1>4, <1>5, <1>6, <1>7, <1>8 DEF WMIInv

(* Nothing changes when no variable does. *)
LEMMA StutterKeeps ==
    ASSUME WMIInv, UNCHANGED wmVars
    PROVE  WMIInv'
<1>1. UNCHANGED <<app, framed, xfocus, held, wmq, slot, focused, count, mapping, drag, sizing, palette, running>>
  BY DEF wmVars, server, table, pull
<1>2. Used' = Used
  BY <1>1 DEF Used
<1>3. Managed' = Managed /\ Events' = Events
  BY <1>1, <1>2 DEF Managed, Events
<1>4. WMTypeOK' /\ TableInv'
  BY <1>1, <1>2, <1>3 DEF WMIInv, WMTypeOK, TableInv
<1>5. \A c \in Client : Leaving(c) => Leaving(c)'
  BY <1>3 DEF Leaving, Ev
<1>6. EventsNameClients'
  BY <1>1, <1>3 DEF WMIInv, EventsNameClients
<1>7. \A c \in Client : Ev("map", c) \in Events => Ev("map", c) \in Events'
  BY <1>3
<1>8. ReportsQueued'
  BY <1>1, <1>3, <1>5, <1>7, ReportsStay, ManagedAreClients DEF WMIInv
<1>9. KeyboardOwed'
  BY <1>1, <1>5, KeyboardStays DEF WMIInv
<1>10. ReleaseOwed'
  <2>1. Longer /\ DOMAIN wmq' = DOMAIN wmq
    BY <1>1, SameIsLonger DEF WMIInv, WMTypeOK
  <2>2. \A c \in Client : Buried(c) => Buried(c)'
    BY <1>1, BuriedStays
  <2>3. (~running' => framed' = {}) /\ (held' # NoClient => held' \in framed')
    BY <1>1 DEF WMIInv, ReleaseOwed
  <2> QED BY <1>1, <2>1, <2>2, <2>3, ReleaseStays DEF WMIInv
<1> QED BY <1>4, <1>6, <1>8, <1>9, <1>10 DEF WMIInv

(* Every step keeps what the queued events owe to the table, to the        *)
(* keyboard and to the pointer.                                            *)
LEMMA StepKeepsOwed == WMIInv /\ [WMNext]_wmVars => WMIInv'
<1> SUFFICES ASSUME WMIInv, [WMNext]_wmVars PROVE WMIInv'
  OBVIOUS
<1>1. CASE Programs
  <2>1. PICK c \in Client : Show(c) \/ Hide(c) \/ Die(c) \/ reap_children(c)
    BY <1>1 DEF Programs
  <2> QED BY <2>1, ShowKeeps, HideKeeps, DieKeeps, ReapKeeps
<1>2. CASE User
  <2>1. \/ \E c \in Client : Motion(c) \/ \E zone \in Presses : Press(c, zone)
        \/ Release
        \/ \E k \in Grabbed \cup {"escape", "enter", "arrow"} : Key(k)
        \/ \E i \in Slot : TaskbarClick(i)
        \/ IconClick
        \/ Quit
    BY <1>2 DEF User, Presses
  <2> QED BY <2>1, MotionKeeps, PressKeeps, ReleaseKeeps, KeyKeeps, TaskbarKeeps, IconKeeps, QuitKeeps
<1>3. CASE WMStep
  BY <1>3, MapKeeps, ManageKeeps, UnmapDestroyKeeps, ButtonPressKeeps, HandleMotionKeeps,
     HandleReleaseKeeps, TabKeeps, SpaceKeeps, PaletteEditKeeps, PaletteDoneKeeps DEF WMStep
<1>4. CASE UNCHANGED wmVars
  BY <1>4, StutterKeeps
<1> QED BY <1>1, <1>2, <1>3, <1>4 DEF WMNext

(* When BotDesk has caught up, nothing is owed any more.                   *)
LEMMA OwedIsEnough == WMIInv => WMInv /\ InputOwned
<1> SUFFICES ASSUME WMIInv PROVE WMInv /\ InputOwned
  OBVIOUS
<1>1. WMTypeOK /\ TableInv /\ ReportsQueued /\ KeyboardOwed /\ ReleaseOwed /\ NoClient \notin Client
  BY ManagedAreClients DEF WMIInv
<1>2. ASSUME CaughtUp PROVE Events = {} /\ running /\ mapping = NoClient /\ \A c : ~Leaving(c)
  <2>1. DOMAIN wmq = {}
    BY <1>2 DEF CaughtUp
  <2> QED BY <1>2, <2>1 DEF CaughtUp, Events, Leaving
<1>3. RequestsAnswered
  <2> SUFFICES ASSUME CaughtUp, NEW c \in Client
               PROVE  app[c] # "asked" /\ (c \in Managed => app[c] = "shown")
    BY DEF RequestsAnswered
  <2> QED BY <1>1, <1>2 DEF ReportsQueued
<1>4. KeyboardFollows
  <2> SUFFICES ASSUME CaughtUp, ~palette.active, Used # {}
               PROVE  \E i \in focused : xfocus = slot[i]
    BY DEF KeyboardFollows
  <2> QED BY <1>1, <1>2 DEF KeyboardOwed
<1>5. DragOwned
  <2> SUFFICES ASSUME NEW c \in {drag, sizing} \cap framed
               PROVE  held = c \/ \E i \in DOMAIN wmq : wmq[i] = Ev("release", c)
    BY DEF DragOwned
  <2>1. c \in Client /\ running
    BY <1>1 DEF WMTypeOK, ReleaseOwed
  <2>2. Owed(c, 0) /\ ~Buried(c)
    BY <1>1, <2>1 DEF ReleaseOwed, Buried
  <2> QED BY <2>2 DEF Owed
<1> QED BY <1>1, <1>3, <1>4, <1>5 DEF WMInv, InputOwned

(***************************************************************************)
(* Whatever programs and the user do, every reachable state owes only what *)
(* the queued events will settle.                                          *)
(***************************************************************************)
THEOREM WMInvariant == WMSpec => []WMIInv
BY InitOwesNothing, StepKeepsOwed, PTL DEF WMSpec

(***************************************************************************)
(* BotDesk's table is in order, and once it has caught up no request to    *)
(* show a window waits any longer and every window in the table is shown,  *)
(* for any number of programs, slots and queued events.                    *)
(***************************************************************************)
THEOREM TableIsInOrder == WMSpec => []WMInv
<1>1. WMIInv => WMInv
  BY OwedIsEnough
<1> QED BY <1>1, WMInvariant, PTL

(***************************************************************************)
(* The keyboard goes to the window drawn as focused, and only a window     *)
(* that is held, or whose release is on its way, follows the pointer.      *)
(***************************************************************************)
THEOREM InputGoesWhereShown == WMSpec => []InputOwned
<1>1. WMIInv => InputOwned
  BY OwedIsEnough
<1> QED BY <1>1, WMInvariant, PTL


(***************************************************************************)
(* BotPaint.                                                               *)
(***************************************************************************)
LEMMA PaintInitInv == PaintInit => PaintInv
<1> SUFFICES ASSUME PaintInit PROVE PaintInv
  OBVIOUS
<1>1. Sized(Default) \in Sheet /\ Sized(Default).size = Default
  BY PaintAssumption DEF Sized, Sheet
<1>2. file \in Contents /\ (file \notin {Absent, Garbage, NoPixels} => file \in Sheet)
  BY DEF PaintInit, Contents
<1>3. image \in Sheet \cup {Null}
  BY <1>1, <1>2 DEF PaintInit
<1>4. image # Null => frame = image.size
  BY DEF PaintInit
<1>5. frame \in Frame
  BY <1>3, <1>4, PaintAssumption DEF PaintInit, Sheet
<1>6. undo = Null /\ drawing = FALSE /\ pressed = 0 /\ asking = "no"
  BY DEF PaintInit
<1>7. PaintTypeOK
  <2>1. alive \in {"yes", "quit", "crashed"} /\ name \in {"none", "bare", "full"} /\ tool = "pen"
    <3>1. alive = "quit" \/ alive = "yes"
      BY DEF PaintInit
    <3>2. name \in {"none", "full"} /\ tool = "pen"
      BY DEF PaintInit
    <3> QED  BY <3>1, <3>2
  <2>2. drawing \in BOOLEAN
    BY <1>6
  <2>3. pressed \in 0 .. 2 /\ asking \in {"no", "open", "save"} /\ undo \in Sheet \cup {Null}
    BY <1>6
  <2> QED  BY <1>2, <1>3, <1>5, <2>1, <2>2, <2>3 DEF PaintTypeOK
<1>8. SizesAgree /\ UndoIsPrior /\ StrokeHeld
  BY <1>4, <1>6 DEF SizesAgree, UndoIsPrior, StrokeHeld
<1>9. CrashDeserved
  BY DEF PaintInit, CrashDeserved
<1> QED  BY <1>7, <1>8, <1>9 DEF PaintInv

(* What a stroke leaves is a picture of the same size.                     *)
LEMMA StrokeKeepsSize ==
    ASSUME PaintInv, Stroke
    PROVE  /\ image' \in Sheet \cup {Null} /\ (image' = Null <=> image = Null)
           /\ image # Null => image'.size = image.size
<1>1. CASE image = Null
  BY <1>1 DEF Stroke
<1>2. CASE image # Null
  BY <1>2, PaintAssumption DEF Stroke, Painted
<1> QED  BY <1>1, <1>2

(* Whatever a confirmed dialog does, the buffers still fit.                *)
LEMMA ConfirmKeepsSizes ==
    ASSUME PaintInv, Confirm \/ Cancel, UNCHANGED <<prior, alive>>
    PROVE  /\ image' \in Sheet \cup {Null} /\ undo' \in Sheet \cup {Null} /\ frame' \in Frame
           /\ name' \in {"none", "bare", "full"} /\ file' \in Contents /\ asking' = "no"
           /\ SizesAgree' /\ UndoIsPrior'
           /\ (alive = "crashed" \/ image' = Null => emptied')
<1> USE DEF PaintInv, PaintTypeOK, SizesAgree, UndoIsPrior, CrashDeserved
<1>1. CASE UNCHANGED <<image, frame, undo, emptied, name, file>> /\ asking' = "no"
  BY <1>1
<1>2. CASE botpaint_load /\ UNCHANGED <<name, file>> /\ asking' = "no"
  <2>1. CASE name # "full" \/ file \in {Absent, Garbage}
    BY <1>2, <2>1 DEF botpaint_load
  <2>2. CASE ~(name # "full" \/ file \in {Absent, Garbage}) /\ file = NoPixels
    BY <1>2, <2>2, PaintAssumption DEF botpaint_load
  <2>3. CASE ~(name # "full" \/ file \in {Absent, Garbage}) /\ file # NoPixels
    <3>1. file \in Sheet
      BY <2>3 DEF Contents
    <3>2. \/ image' = file /\ frame' = file.size /\ undo' = Null /\ emptied' = emptied
          \/ image' = Null /\ emptied' = TRUE /\ UNCHANGED <<frame, undo>>
      BY <2>3, <1>2 DEF botpaint_load
    <3>3. file.size \in Frame
      BY <3>1 DEF Sheet
    <3>4. CASE image' = file /\ frame' = file.size /\ undo' = Null /\ emptied' = emptied
      BY <1>2, <3>1, <3>3, <3>4, PaintAssumption
    <3>5. CASE image' = Null /\ emptied' = TRUE /\ UNCHANGED <<frame, undo>>
      BY <1>2, <3>5
    <3> QED  BY <3>2, <3>4, <3>5
  <2> QED  BY <2>1, <2>2, <2>3
<1>3. CASE botpaint_save /\ UNCHANGED <<image, frame, undo, emptied>> /\ asking' = "no"
  BY <1>3 DEF botpaint_save, Contents
<1> QED  BY <1>1, <1>2, <1>3 DEF Confirm, Cancel

LEMMA PaintNextInv ==
    ASSUME PaintInv, PaintNext
    PROVE  PaintInv'
<1> USE DEF PaintInv, PaintTypeOK
<1>1. CASE on_dialog_mouse_down
  <2>1. CASE Confirm \/ Cancel
    BY <1>1, <2>1, ConfirmKeepsSizes DEF on_dialog_mouse_down, StrokeHeld, CrashDeserved
  <2>2. CASE UNCHANGED <<asking, image, frame, undo, emptied, name, file>>
    BY <1>1, <2>2 DEF on_dialog_mouse_down, StrokeHeld, CrashDeserved, SizesAgree, UndoIsPrior
  <2> QED  BY <1>1, <2>1, <2>2 DEF on_dialog_mouse_down
<1>2. CASE ToolbarClick
  BY <1>2 DEF ToolbarClick, still, StrokeHeld, CrashDeserved, SizesAgree, UndoIsPrior
<1>3. CASE CanvasPress
  BY <1>3, StrokeKeepsSize
     DEF CanvasPress, save_undo, StrokeHeld, CrashDeserved, SizesAgree, UndoIsPrior
<1>4. CASE on_mouse_move
  BY <1>4, StrokeKeepsSize DEF on_mouse_move, StrokeHeld, CrashDeserved, SizesAgree, UndoIsPrior
<1>5. CASE on_mouse_up
  <2>0. /\ pressed > 0 /\ pressed' \in 0 .. 2
        /\ UNCHANGED <<frame, undo, tool, asking, name, file, alive, prior, emptied>>
    BY <1>5 DEF on_mouse_up
  <2>1. CASE (asking # "no" \/ ~drawing) /\ UNCHANGED <<image, drawing, tangled>>
    BY <2>0, <2>1 DEF StrokeHeld, CrashDeserved, SizesAgree, UndoIsPrior
  <2>2. CASE drawing' = FALSE /\ UNCHANGED image
    BY <2>0, <2>2 DEF StrokeHeld, CrashDeserved, SizesAgree, UndoIsPrior
  <2>3. CASE drawing' = FALSE /\ Stroke
    <3>1. /\ image' \in Sheet \cup {Null} /\ (image' = Null <=> image = Null)
          /\ image # Null => image'.size = image.size
      BY <2>3, StrokeKeepsSize
    <3> QED  BY <2>0, <2>3, <3>1 DEF StrokeHeld, CrashDeserved, SizesAgree, UndoIsPrior
  <2> QED  BY <1>5, <2>1, <2>2, <2>3 DEF on_mouse_up
<1>6. CASE on_dialog_key_down
  <2>1. CASE Confirm \/ Cancel
    BY <1>6, <2>1, ConfirmKeepsSizes DEF on_dialog_key_down, StrokeHeld, CrashDeserved
  <2>2. CASE ~(Confirm \/ Cancel)
    BY <1>6, <2>2 DEF on_dialog_key_down, StrokeHeld, CrashDeserved, SizesAgree, UndoIsPrior
  <2> QED  BY <2>1, <2>2
<1>7. CASE on_key_down
  <2>0. /\ alive = "yes"
        /\ UNCHANGED <<frame, drawing, asking, name, file, pressed, tangled, emptied>>
    BY <1>7 DEF on_key_down
  <2>1. CASE /\ tool' \in {"pen", "shape", "fill"} \/ UNCHANGED tool
             /\ UNCHANGED <<image, undo, prior>> /\ alive' \in {"yes", "quit"}
    BY <2>0, <2>1 DEF StrokeHeld, CrashDeserved, SizesAgree, UndoIsPrior
  <2>2. CASE /\ save_undo /\ UNCHANGED tool
             /\ image' = IF image = Null THEN Null ELSE Sized(image.size)
    <3>1. image # Null => Sized(image.size) \in Sheet /\ Sized(image.size).size = image.size
      BY PaintAssumption DEF Sized, Sheet
    <3>2. /\ image' \in Sheet \cup {Null} /\ (image' = Null <=> image = Null)
          /\ image # Null => image'.size = image.size
      BY <2>2, <3>1, PaintAssumption
    <3>3. \/ undo' = Null /\ prior' = image /\ alive' = alive
          \/ image # Null /\ undo' = image /\ prior' = image /\ alive' = alive
          \/ image = Null /\ alive' = "crashed" /\ undo' = undo /\ prior' = prior
      BY <2>2 DEF save_undo
    <3> HIDE DEF PaintInv
    <3>4. /\ PaintTypeOK /\ SizesAgree /\ UndoIsPrior /\ StrokeHeld /\ CrashDeserved
      BY DEF PaintInv
    <3>5. PaintTypeOK'
      BY <2>0, <2>2, <3>2, <3>3, <3>4
    <3>6. SizesAgree' /\ UndoIsPrior'
      BY <2>0, <3>2, <3>3, <3>4 DEF SizesAgree, UndoIsPrior
    <3>7. StrokeHeld' /\ CrashDeserved'
      BY <2>0, <3>2, <3>3, <3>4 DEF StrokeHeld, CrashDeserved
    <3> QED  BY <3>5, <3>6, <3>7 DEF PaintInv
  <2>3. CASE do_undo /\ UNCHANGED <<tool, prior>>
    BY <2>0, <2>3 DEF do_undo, StrokeHeld, CrashDeserved, SizesAgree, UndoIsPrior
  <2> QED  BY <1>7, <2>0, <2>1, <2>2, <2>3 DEF on_key_down
<1>8. CASE on_resize
  <2>1. /\ frame' \in Frame /\ undo' = Null
        /\ UNCHANGED <<tool, drawing, asking, name, file, pressed, alive, prior, tangled>>
    BY <1>8 DEF on_resize
  <2>2. \/ image' \in Sheet /\ image'.size = frame' /\ emptied' = emptied
        \/ image' = Null /\ emptied' = TRUE
    BY <1>8, PaintAssumption DEF on_resize, Sized, Sheet
  <2>3. CASE image' \in Sheet /\ image'.size = frame' /\ emptied' = emptied
    BY <2>1, <2>3, PaintAssumption DEF StrokeHeld, CrashDeserved, SizesAgree, UndoIsPrior
  <2>4. CASE image' = Null /\ emptied' = TRUE
    BY <2>1, <2>4 DEF StrokeHeld, CrashDeserved, SizesAgree, UndoIsPrior
  <2> QED  BY <2>2, <2>3, <2>4
<1>9. CASE Closing
  BY <1>9 DEF Closing, StrokeHeld, CrashDeserved, SizesAgree, UndoIsPrior
<1> QED
  BY <1>1, <1>2, <1>3, <1>4, <1>5, <1>6, <1>7, <1>8, <1>9 DEF PaintNext

(* The canvas, the undo buffer and the window of BotPaint fit each other,  *)
(* strokes end with their button and only a canvas that could not be made  *)
(* (a file without pixels, no memory) brings it down, for any sizes and    *)
(* contents of pictures.                                                   *)
THEOREM PaintIsSafe == PaintSpec => []PaintInv
<1>1. PaintInv /\ UNCHANGED paintVars => PaintInv'
  BY DEF PaintInv, PaintTypeOK, SizesAgree, UndoIsPrior, StrokeHeld, CrashDeserved, paintVars
<1> QED  BY <1>1, PaintInitInv, PaintNextInv, PTL DEF PaintSpec
=============================================================================
