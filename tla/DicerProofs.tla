------------------------------- MODULE DicerProofs -------------------------------
(***************************************************************************)
(* What a Dicer and the cue points of its decks keep to, for any decks,    *)
(* buttons, positions, and however the port takes what is written; and     *)
(* what its LEDs show, for a port that takes half of the buffer or nothing.*)
(***************************************************************************)
EXTENDS Dicer, SequenceTheorems, WellFoundedInduction, TLAPS

(* A punch and the offset add up to the offset that the punch left.        *)
PunchLeadsHome ==
  \A d \in Decks :
    IF punch[d] = NO_PUNCH THEN home[d] = HUGE_VAL
    ELSE home[d] # HUGE_VAL => offset[d] + punch[d] = home[d]

IInv == CuesTypeOK /\ LedsTypeOK /\ PunchLeadsHome /\ LedsShowCues

LEMMA FlagsChange ==
  ASSUME NEW l \in Led, NEW on \in BOOLEAN, NEW pressed \in BOOLEAN
  PROVE  /\ Held(l, pressed) \in Led /\ Held(l, pressed).ON = l.ON
         /\ Lit(l, on) \in Led /\ Lit(l, on).ON = on
         /\ Lit(Held(l, pressed), on) \in Led /\ Lit(Held(l, pressed), on).ON = on
  BY DEF Held, Lit, With, Shows, Led

LEMMA InitIInv == Init => IInv
<1> SUFFICES ASSUME Init PROVE IInv
  OBVIOUS
<1>1. CuesTypeOK /\ PunchLeadsHome
  BY CuesAssumption DEF Init, InitCues, CuesTypeOK, PunchLeadsHome, CUE_UNSET, NO_PUNCH
<1>2. LedsTypeOK
  BY DEF Init, LedsTypeOK, Led
<1>3. \A d \in Decks, b \in Buttons : <<d, b>> \in Leds
  BY DicerAssumption DEF Leds
<1>4. LedsShowCues
  BY <1>3 DEF Init, InitCues, LedsShowCues
<1> QED
  BY <1>1, <1>2, <1>4 DEF IInv

(* What the deck does to its punch.                                        *)
LEMMA DeckSteps ==
  ASSUME CuesTypeOK, PunchLeadsHome, NEW d \in Decks, NEW b \in Buttons,
         \/ UnsetCue(d, b) \/ Cue(d, b) \/ PunchIn(d, b) \/ PunchOut(d)
         \/ MovePosition(d) \/ MoveOffset(d)
  PROVE  CuesTypeOK' /\ PunchLeadsHome'
<1> USE CuesAssumption DEF CUE_UNSET, NO_PUNCH
<1> /\ position[d] \in Int /\ offset[d] \in Int
    /\ cues[d][b] \in Int \cup {HUGE_VAL}
    /\ punch[d] \in Int \cup {HUGE_VAL} /\ home[d] \in Int \cup {HUGE_VAL}
  BY DEF CuesTypeOK
<1>1. CASE UnsetCue(d, b)
  BY <1>1 DEF UnsetCue, SetCue, CuesTypeOK, PunchLeadsHome
<1>2. CASE Cue(d, b)
  <2>1. CASE cues[d][b] = HUGE_VAL
    BY <1>2, <2>1 DEF Cue, SetCue, Elapsed, CuesTypeOK, PunchLeadsHome
  <2>2. CASE cues[d][b] # HUGE_VAL
    <3>1. /\ offset' = [offset EXCEPT ![d] = position[d] - cues[d][b]]
          /\ position[d] - cues[d][b] \in Offsets
          /\ home' = [home EXCEPT ![d] = HUGE_VAL]
          /\ UNCHANGED <<position, cues, punch>>
      BY <1>2, <2>2 DEF Cue, SeekTo
    <3>2. CuesTypeOK'
      BY <3>1 DEF CuesTypeOK
    <3>3. PunchLeadsHome'
      BY <3>1 DEF CuesTypeOK, PunchLeadsHome
    <3> QED
      BY <3>2, <3>3
  <2> QED
    BY <2>1, <2>2
<1>3. CASE PunchIn(d, b)
  <2>1. CASE cues[d][b] = HUGE_VAL
    BY <1>3, <2>1 DEF PunchIn, SetCue, Elapsed, CuesTypeOK, PunchLeadsHome
  <2>2. CASE cues[d][b] # HUGE_VAL
    <3>1. /\ offset' = [offset EXCEPT ![d] = position[d] - cues[d][b]]
          /\ position[d] - cues[d][b] \in Offsets
          /\ punch' = [punch EXCEPT ![d] = cues[d][b] - Unpunched(d)]
          /\ cues[d][b] - Unpunched(d) \in Punches
          /\ home' = [home EXCEPT ![d] = IF punch[d] = HUGE_VAL THEN offset[d] ELSE home[d]]
          /\ UNCHANGED <<position, cues>>
      BY <1>3, <2>2 DEF PunchIn, SeekTo
    <3>2. CuesTypeOK'
      BY <3>1 DEF CuesTypeOK
    <3>3. Unpunched(d) = IF punch[d] = HUGE_VAL THEN position[d] - offset[d]
                         ELSE position[d] - offset[d] - punch[d]
      BY DEF Unpunched, Elapsed
    <3>4. home'[d] # HUGE_VAL => offset'[d] + punch'[d] = home'[d]
      <4>1. /\ offset'[d] = position[d] - cues[d][b]
            /\ punch'[d] = cues[d][b] - Unpunched(d)
            /\ home'[d] = IF punch[d] = HUGE_VAL THEN offset[d] ELSE home[d]
        BY <3>1 DEF CuesTypeOK
      <4>2. CASE punch[d] = HUGE_VAL
        BY <4>1, <4>2, <3>3, <2>2
      <4>3. CASE punch[d] # HUGE_VAL
        <5>1. home[d] # HUGE_VAL => offset[d] + punch[d] = home[d]
          BY <4>3 DEF PunchLeadsHome
        <5> QED
          BY <4>1, <4>3, <5>1, <3>3, <2>2
      <4> QED
        BY <4>2, <4>3
    <3>5. punch'[d] # HUGE_VAL
      BY <3>1 DEF CuesTypeOK
    <3>6. \A e \in Decks \ {d} : punch'[e] = punch[e] /\ offset'[e] = offset[e] /\ home'[e] = home[e]
      BY <3>1 DEF CuesTypeOK
    <3> QED
      BY <3>2, <3>4, <3>5, <3>6 DEF PunchLeadsHome
  <2> QED
    BY <2>1, <2>2
<1>4. CASE PunchOut(d)
  BY <1>4 DEF PunchOut, SeekTo, Elapsed, deckVars, CuesTypeOK, PunchLeadsHome
<1>5. CASE MovePosition(d)
  BY <1>5 DEF MovePosition, CuesTypeOK, PunchLeadsHome
<1>6. CASE MoveOffset(d)
  BY <1>6 DEF MoveOffset, CuesTypeOK, PunchLeadsHome
<1> QED
  BY <1>1, <1>2, <1>3, <1>4, <1>5, <1>6

(* A cue point that was set or unset, and nothing else, with its LED.      *)
LEMMA LitWithCue ==
  ASSUME IInv, NEW d \in Decks, NEW b \in Buttons, NEW on \in BOOLEAN, NEW to,
         on <=> to # CUE_UNSET,
         cues' = [cues EXCEPT ![d][b] = to], LightsUp(<<d, b>>, on, TRUE), UNCHANGED status
  PROVE  LedsTypeOK' /\ LedsShowCues'
<1>1. <<d, b>> \in Leds /\ led[<<d, b>>] \in Led
  BY DicerAssumption DEF IInv, LedsTypeOK, Leds
<1>2. led' = [led EXCEPT ![<<d, b>>] = Lit(Held(led[<<d, b>>], TRUE), on)]
  BY DEF LightsUp
<1>3. LedsTypeOK' /\ led'[<<d, b>>].ON = on
  BY <1>1, <1>2, FlagsChange DEF IInv, LedsTypeOK
<1>4. \A e \in Decks, c \in Buttons : cues'[e][c] = IF e = d /\ c = b THEN to ELSE cues[e][c]
  BY DEF IInv, CuesTypeOK
<1>5. \A e \in Decks, c \in Buttons :
        (e # d \/ c # b) => led'[<<e, c>>] = led[<<e, c>>]
  <2> SUFFICES ASSUME NEW e \in Decks, NEW c \in Buttons, e # d \/ c # b
               PROVE  led'[<<e, c>>] = led[<<e, c>>]
    OBVIOUS
  <2>1. <<e, c>> # <<d, b>> /\ <<e, c>> \in Leds
    BY DicerAssumption DEF Leds
  <2> QED
    BY <2>1, <1>2 DEF IInv, LedsTypeOK
<1> QED
  BY <1>3, <1>4, <1>5 DEF IInv, LedsShowCues

(* An LED that is held or let go of shows the same cue point.              *)
LEMMA HeldWithCue ==
  ASSUME IInv, NEW d \in Decks, NEW b \in Buttons, NEW on \in BOOLEAN,
         led' = [led EXCEPT ![<<d, b>>] = Held(@, on)], UNCHANGED <<cues, status>>
  PROVE  LedsTypeOK' /\ LedsShowCues'
<1>1. <<d, b>> \in Leds /\ led[<<d, b>>] \in Led
  BY DicerAssumption DEF IInv, LedsTypeOK, Leds
<1>2. /\ Held(led[<<d, b>>], on) \in Led
      /\ Held(led[<<d, b>>], on).ON = led[<<d, b>>].ON
  BY <1>1, FlagsChange
<1>3. LedsTypeOK'
  BY <1>2 DEF IInv, LedsTypeOK
<1>4. \A x \in Leds : led'[x].ON = led[x].ON
  BY <1>1, <1>2 DEF IInv, LedsTypeOK
<1>5. \A e \in Decks, c \in Buttons : <<e, c>> \in Leds
  BY DicerAssumption DEF Leds
<1> QED
  BY <1>3, <1>4, <1>5 DEF IInv, LedsShowCues

(* Writing commands marks LEDs as synced, and lights none.                 *)
LEMMA SyncKeepsLeds ==
  ASSUME NEW leds \in [Leds -> Led], SyncAllLeds(leds)
  PROVE  led' \in [Leds -> Led] /\ \A x \in Leds : led'[x].ON = leds[x].ON
<1>1. PICK fit : led' = Marked(leds, ToSet(fit))
  BY DEF SyncAllLeds
<1> QED
  BY <1>1 DEF Marked, Led

LEMMA EventIInv ==
  ASSUME IInv, NEW d \in Decks, NEW b \in Buttons, Event(d, b)
  PROVE  IInv'
<1> USE CuesAssumption DEF IInv
<1>s. UNCHANGED status
  BY DEF Event
<1>1. CASE ClearCue(d, b)
  <2>1. CuesTypeOK' /\ PunchLeadsHome'
    BY <1>1, DeckSteps DEF ClearCue
  <2>2. cues' = [cues EXCEPT ![d][b] = CUE_UNSET] /\ LightsUp(<<d, b>>, FALSE, TRUE)
    BY <1>1 DEF ClearCue, UnsetCue, SetCue
  <2> QED
    BY <1>s, <2>1, <2>2, LitWithCue
<1>2. CASE PressCue(d, b) \/ PressLoop(d, b)
  <2>1. CuesTypeOK' /\ PunchLeadsHome'
    BY <1>2, DeckSteps DEF PressCue, PressLoop
  <2>2. LightsUp(<<d, b>>, TRUE, TRUE)
    BY <1>2 DEF PressCue, PressLoop
  <2>3. CASE cues[d][b] = CUE_UNSET
    <3>1. cues' = [cues EXCEPT ![d][b] = Elapsed(d)]
      BY <1>2, <2>3 DEF PressCue, PressLoop, Cue, PunchIn, SetCue
    <3>2. position[d] \in Int /\ offset[d] \in Int
      BY DEF CuesTypeOK
    <3>3. Elapsed(d) # CUE_UNSET
      BY <3>2 DEF Elapsed, CUE_UNSET
    <3> QED
      BY <1>s, <2>1, <2>2, <3>1, <3>3, LitWithCue
  <2>4. CASE cues[d][b] # CUE_UNSET
    <3>1. cues' = cues
      BY <1>2, <2>4 DEF PressCue, PressLoop, Cue, PunchIn
    <3>2. cues' = [cues EXCEPT ![d][b] = cues[d][b]]
      BY <3>1 DEF CuesTypeOK
    <3> QED
      BY <1>s, <2>1, <2>2, <2>4, <3>2, LitWithCue
  <2> QED
    BY <2>3, <2>4
<1>3. CASE ReleaseLoop(d, b)
  <2>1. CuesTypeOK' /\ PunchLeadsHome'
    BY <1>3, DeckSteps DEF ReleaseLoop
  <2>2. UNCHANGED cues /\ led' = [led EXCEPT ![<<d, b>>] = Held(@, FALSE)]
    BY <1>3 DEF ReleaseLoop, PunchOut, deckVars
  <2> QED
    BY <1>s, <2>1, <2>2, HeldWithCue
<1>4. CASE OtherEvent(d, b)
  <2>1. CuesTypeOK' /\ PunchLeadsHome' /\ UNCHANGED cues
    BY <1>4 DEF OtherEvent, deckVars, CuesTypeOK, PunchLeadsHome
  <2>2. PICK on \in BOOLEAN : led' = [led EXCEPT ![<<d, b>>] = Held(@, on)]
    BY <1>4 DEF OtherEvent
  <2> QED
    BY <1>s, <2>1, <2>2, HeldWithCue
<1> QED
  BY <1>1, <1>2, <1>3, <1>4 DEF Event

LEMMA NextIInv == IInv /\ [Next]_vars => IInv'
<1> SUFFICES ASSUME IInv, [Next]_vars PROVE IInv'
  OBVIOUS
<1>1. CASE Press
  BY <1>1, EventIInv DEF Press
<1>2. CASE ReadError
  BY <1>2 DEF ReadError, deckVars, IInv, CuesTypeOK, LedsTypeOK, PunchLeadsHome, LedsShowCues
<1>3. CASE Sync
  <2>1. /\ led' \in [Leds -> Led]
        /\ \A x \in Leds : led'[x].ON = led[x].ON
        /\ UNCHANGED <<deckVars, status>>
    BY <1>3, SyncKeepsLeds DEF Sync, IInv, LedsTypeOK
  <2>2. \A d \in Decks, b \in Buttons : <<d, b>> \in Leds
    BY DicerAssumption DEF Leds
  <2> QED
    BY <2>1, <2>2 DEF deckVars, IInv, CuesTypeOK, LedsTypeOK, PunchLeadsHome, LedsShowCues
<1>4. CASE Clear
  <2> DEFINE out == [x \in Leds |-> Lit(led[x], FALSE)]
  <2>1. out \in [Leds -> Led]
    BY FlagsChange DEF IInv, LedsTypeOK
  <2>2. SyncAllLeds(out) /\ status' = "cleared" /\ UNCHANGED deckVars
    BY <1>4 DEF Clear
  <2>3. led' \in [Leds -> Led]
    BY <2>1, <2>2, SyncKeepsLeds
  <2> QED
    BY <2>2, <2>3 DEF deckVars, IInv, CuesTypeOK, LedsTypeOK, PunchLeadsHome, LedsShowCues
<1>5. CASE Elsewhere
  <2>1. PICK d \in Decks : MovePosition(d) \/ MoveOffset(d)
    BY <1>5 DEF Elsewhere
  <2>2. UNCHANGED <<led, status, cues>>
    BY <1>5, <2>1 DEF Elsewhere, MovePosition, MoveOffset
  <2>3. CASE Buttons # {}
    <3>1. PICK b \in Buttons : TRUE
      BY <2>3
    <3>2. CuesTypeOK' /\ PunchLeadsHome'
      BY <2>1, <3>1, DeckSteps DEF IInv
    <3> QED
      BY <2>2, <3>2 DEF IInv, LedsTypeOK, LedsShowCues
  <2>4. CASE Buttons = {}
    BY <2>1, <2>2, <2>4, CuesAssumption DEF MovePosition, MoveOffset, IInv, CuesTypeOK,
       LedsTypeOK, PunchLeadsHome, LedsShowCues, NO_PUNCH
  <2> QED
    BY <2>3, <2>4
<1>6. CASE UNCHANGED vars
  BY <1>6 DEF vars, deckVars, IInv, CuesTypeOK, LedsTypeOK, PunchLeadsHome, LedsShowCues
<1> QED
  BY <1>1, <1>2, <1>3, <1>4, <1>5, <1>6 DEF Next

LEMMA Invariance == Spec => []IInv
  BY InitIInv, NextIInv, PTL DEF Spec

(* For any decks, buttons and port, a button is lit exactly if its cue     *)
(* point is set.                                                           *)
THEOREM LitIfSet == Spec => []LedsShowCues
<1>1. IInv => LedsShowCues
  BY DEF IInv
<1> QED
  BY <1>1, Invariance, PTL

(* Ending a punch that nothing disturbed puts the offset back to where the *)
(* first of the punches that it stands for found it.                       *)
LEMMA PunchOutStep ==
  ASSUME IInv, [Next]_vars, NEW d \in Decks,
         punch[d] # NO_PUNCH, punch'[d] = NO_PUNCH, home[d] # HUGE_VAL
  PROVE  offset'[d] = home[d]
<1> USE CuesAssumption DEF NO_PUNCH
<1>1. \A e \in Decks, b \in Buttons : PunchIn(e, b) => punch'[d] # NO_PUNCH
  <2> SUFFICES ASSUME NEW e \in Decks, NEW b \in Buttons, PunchIn(e, b), cues[e][b] # HUGE_VAL
               PROVE  punch'[d] # NO_PUNCH
    BY DEF PunchIn, CUE_UNSET
  <2>1. punch' = [punch EXCEPT ![e] = cues[e][b] - Unpunched(e)] /\ cues[e][b] - Unpunched(e) \in Punches
    BY DEF PunchIn, CUE_UNSET
  <2> QED
    BY <2>1 DEF IInv, CuesTypeOK
<1>2. PICK e \in Decks, b \in Buttons : ReleaseLoop(e, b)
  <2>1. punch' # punch
    OBVIOUS
  <2>2. PICK e \in Decks, b \in Buttons : Event(e, b)
    BY <2>1 DEF Next, Press, ReadError, Sync, Clear, Elsewhere, MovePosition, MoveOffset,
       vars, deckVars
  <2> QED
    BY <2>1, <2>2, <1>1 DEF Event, ClearCue, UnsetCue, PressCue, Cue, PressLoop, OtherEvent, deckVars
<1>3. /\ punch[e] # NO_PUNCH
      /\ offset' = [offset EXCEPT ![e] = position[e] - (Elapsed(e) - punch[e])]
      /\ punch' = [punch EXCEPT ![e] = NO_PUNCH]
  BY <1>2 DEF ReleaseLoop, PunchOut, SeekTo, deckVars
<1>4. e = d
  BY <1>3 DEF IInv, CuesTypeOK
<1>5. /\ position[d] \in Int /\ offset[d] \in Int /\ punch[d] \in Int
      /\ offset[d] + punch[d] = home[d]
  BY DEF IInv, CuesTypeOK, PunchLeadsHome
<1>6. offset'[d] = position[d] - ((position[d] - offset[d]) - punch[d])
  BY <1>3, <1>4 DEF Elapsed, IInv, CuesTypeOK
<1> QED
  BY <1>5, <1>6

(* However punches overlap, letting go returns playback to normal.         *)
THEOREM PunchesReturn == Spec => PunchReturns
<1>1. IInv /\ [Next]_vars =>
        [\A d \in Decks :
           (punch[d] # NO_PUNCH /\ punch'[d] = NO_PUNCH /\ home[d] # HUGE_VAL)
             => offset'[d] = home[d]]_deckVars
  BY PunchOutStep
<1> QED
  BY <1>1, Invariance, PTL DEF Spec, PunchReturns

-----------------------------------------------------------------------------
(* A set of naturals has a least element: induction in the form of sets.   *)
LEMMA NatMin ==
  ASSUME NEW T, T \subseteq Nat, T # {}
  PROVE  \E x \in T : \A y \in T : x <= y
<1>1. PICK x \in T : \A y \in T : ~(<<y, x>> \in OpToRel(<, Nat))
  <2> HIDE DEF OpToRel
  <2> QED
    BY NatLessThanWellFounded, WFMin, Zenon
<1>2. \A y \in T : ~(y < x)
  BY <1>1 DEF OpToRel
<1> QED
  BY <1>2

(* What holds of 0 and of each successor up to n holds up to n.            *)
LEMMA LeastFailure ==
  ASSUME NEW n \in Nat, NEW T, T \subseteq 0 .. n, T # {}, 0 \notin T
  PROVE  \E m \in 1 .. n : m \in T /\ m - 1 \notin T
<1>1. PICK m \in T : \A k \in T : m <= k
  <2>1. T \subseteq Nat
    OBVIOUS
  <2> QED
    BY <2>1, NatMin
<1>2. m \in 1 .. n /\ m - 1 \in Nat
  <2>1. m \in 0 .. n /\ m # 0
    OBVIOUS
  <2> QED
    BY <2>1
<1>3. m - 1 \notin T
  BY <1>1, <1>2
<1> QED
  BY <1>2, <1>3

LEMMA MaxOfNext ==
  ASSUME NEW m \in Nat, NEW s, s \subseteq 1 .. m, ~(s \subseteq 1 .. (m - 1))
  PROVE  Max(s) = m /\ s \ {m} \subseteq 1 .. (m - 1)
<1>1. m \in s /\ \A y \in s : m >= y
  OBVIOUS
<1>2. \A x \in s : (\A y \in s : x >= y) => x = m
  BY <1>1
<1>3. Max(s) = m
  BY <1>1, <1>2 DEF Max
<1> QED
  BY <1>3

(* The folds of the community modules recurse over subsets, from their     *)
(* largest elements down.                                                  *)
FoldOf(iter, n, v0, step) ==
  \A s \in SUBSET (1 .. n) :
    iter[s] = IF s = {} THEN v0 ELSE step[Max(s)][iter[s \ {Max(s)}]]

LEMMA Folded ==
  ASSUME NEW n \in Nat, NEW V, NEW v0 \in V, NEW step \in [1 .. n -> [V -> V]]
  PROVE  \E iter \in [SUBSET (1 .. n) -> V] : FoldOf(iter, n, v0, step)
<1> DEFINE Upto(iter, m) == \A s \in SUBSET (1 .. m) :
             iter[s] = IF s = {} THEN v0 ELSE step[Max(s)][iter[s \ {Max(s)}]]
           Bad == {m \in 0 .. n : ~\E iter \in [SUBSET (1 .. n) -> V] : Upto(iter, m)}
<1>0. \A m \in 0 .. n : m \in Bad <=> ~\E iter \in [SUBSET (1 .. n) -> V] : Upto(iter, m)
  OBVIOUS
<1> HIDE DEF Bad
<1>1. 0 \notin Bad
  <2> DEFINE iter == [s \in SUBSET (1 .. n) |-> v0]
  <2>1. iter \in [SUBSET (1 .. n) -> V] /\ iter[{}] = v0
    OBVIOUS
  <2> HIDE DEF iter
  <2>2. \A s \in SUBSET (1 .. 0) : s = {}
    OBVIOUS
  <2>3. Upto(iter, 0)
    BY <2>1, <2>2
  <2> QED
    <3> HIDE DEF Upto
    <3>1. \E it \in [SUBSET (1 .. n) -> V] : Upto(it, 0)
      BY <2>1, <2>3
    <3> QED
      BY <1>0, <3>1
<1>2. ASSUME NEW m \in 1 .. n, m - 1 \notin Bad PROVE m \notin Bad
  <2>1. PICK f \in [SUBSET (1 .. n) -> V] : Upto(f, m - 1)
    <3>1. m - 1 \in 0 .. n
      OBVIOUS
    <3> QED
      BY <1>0, <1>2, <3>1
  <2> DEFINE g == [s \in SUBSET (1 .. n) |->
                IF s \subseteq 1 .. (m - 1) THEN f[s] ELSE step[m][f[s \ {m}]]]
  <2>2. step[m] \in [V -> V]
    OBVIOUS
  <2>3. \A s \in SUBSET (1 .. n) : f[s] \in V /\ f[s \ {m}] \in V
    OBVIOUS
  <2>4. g \in [SUBSET (1 .. n) -> V]
    BY <2>2, <2>3
  <2>5. \A s \in SUBSET (1 .. n) :
          g[s] = IF s \subseteq 1 .. (m - 1) THEN f[s] ELSE step[m][f[s \ {m}]]
    OBVIOUS
  <2> HIDE DEF g
  <2>6. ASSUME NEW s \in SUBSET (1 .. m)
        PROVE  g[s] = IF s = {} THEN v0 ELSE step[Max(s)][g[s \ {Max(s)}]]
    <3>0. s \in SUBSET (1 .. n)
      OBVIOUS
    <3>1. CASE s \subseteq 1 .. (m - 1)
      <4>1. g[s] = f[s] /\ f[s] = IF s = {} THEN v0 ELSE step[Max(s)][f[s \ {Max(s)}]]
        BY <2>1, <2>5, <3>0, <3>1
      <4>2. s \ {Max(s)} \in SUBSET (1 .. n) /\ s \ {Max(s)} \subseteq 1 .. (m - 1)
        BY <3>0, <3>1
      <4>3. g[s \ {Max(s)}] = f[s \ {Max(s)}]
        BY <2>5, <4>2
      <4> QED
        BY <4>1, <4>3
    <3>2. CASE ~(s \subseteq 1 .. (m - 1))
      <4>1. Max(s) = m /\ s \ {m} \subseteq 1 .. (m - 1) /\ s # {}
        <5>1. m \in Nat /\ s \subseteq 1 .. m
          OBVIOUS
        <5>2. Max(s) = m /\ s \ {m} \subseteq 1 .. (m - 1)
          BY <3>2, <5>1, MaxOfNext
        <5> QED
          BY <3>2, <5>2
      <4>2. g[s \ {m}] = f[s \ {m}]
        BY <2>5, <3>0, <4>1
      <4> QED
        BY <2>5, <3>0, <3>2, <4>1, <4>2
    <3> QED
      BY <3>1, <3>2
  <2>7. Upto(g, m)
    BY <2>6
  <2> QED
    <3> HIDE DEF Upto
    <3>1. \E it \in [SUBSET (1 .. n) -> V] : Upto(it, m)
      BY <2>4, <2>7
    <3> QED
      BY <1>0, <3>1
<1>3. Bad = {}
  <2> HIDE DEF Bad
  <2> SUFFICES ASSUME Bad # {} PROVE FALSE
    OBVIOUS
  <2>1. Bad \subseteq 0 .. n
    BY DEF Bad
  <2> QED
    BY <2>1, <1>1, <1>2, LeastFailure
<1>4. n \in 0 .. n
  OBVIOUS
<1> QED
  BY <1>0, <1>3, <1>4 DEF FoldOf

LEMMA MaxIn ==
  ASSUME NEW n \in Nat, NEW s, s \subseteq 1 .. n, s # {}
  PROVE  Max(s) \in s
<1> DEFINE Up == {m \in Nat : s \subseteq 1 .. m}
<1>1. n \in Up /\ Up \subseteq Nat
  OBVIOUS
<1>2. \A m \in Nat : m \in Up <=> s \subseteq 1 .. m
  OBVIOUS
<1> HIDE DEF Up
<1>3. PICK m \in Up : \A k \in Up : m <= k
  BY <1>1, NatMin
<1>4. m \in Nat /\ m # 0
  <2>1. 1 .. 0 = {}
    OBVIOUS
  <2> QED
    BY <1>1, <1>2, <1>3, <2>1
<1>5. m - 1 \in Nat /\ m - 1 \notin Up
  BY <1>3, <1>4
<1>6. m \in s
  BY <1>2, <1>3, <1>4, <1>5
<1> QED
  BY <1>2, <1>3, <1>4, <1>5, <1>6, MaxOfNext

LEMMA UptoNext ==
  ASSUME NEW n \in Nat, NEW k \in 1 .. n
  PROVE  Max(1 .. k) = k /\ (1 .. k) \ {k} = 1 .. (k - 1) /\ 1 .. k # {}
<1>1. k \in Nat /\ k \in 1 .. k /\ k \notin 1 .. (k - 1)
  OBVIOUS
<1>2. Max(1 .. k) = k
  BY <1>1, MaxOfNext
<1> QED
  BY <1>1, <1>2

-----------------------------------------------------------------------------
(* The bytes that are written, and what the hardware does with each.       *)

Places == Leds \X (1 .. Modes)
Colours == [ON : BOOLEAN, PRESSED : BOOLEAN]
Statuses == [led : Leds, mode : 1 .. Modes]
Bytes == Statuses \cup Colours
Devices == [shows : [Places -> Colours], selected : {<< >>} \cup Places]

Run(d, bytes) == FoldLeft(Receive, d, bytes)

IsFold(iter, d, bytes) ==
  iter = [s \in SUBSET DOMAIN bytes |->
           IF s = {} THEN d ELSE LET x == Max(s) IN Receive(iter[s \ {x}], bytes[x])]

IsRun(dev, d, bytes) ==
  /\ dev \in [0 .. Len(bytes) -> Devices]
  /\ dev[0] = d
  /\ \A k \in 1 .. Len(bytes) : dev[k] = Receive(dev[k - 1], bytes[k])

LEMMA ReceiveStatus ==
  ASSUME NEW dev \in Devices, NEW byte \in Statuses
  PROVE  /\ Receive(dev, byte) \in Devices
         /\ Receive(dev, byte).shows = dev.shows
         /\ Receive(dev, byte).selected = <<byte.led, byte.mode>>
<1>1. "mode" \in DOMAIN byte
  BY DEF Statuses
<1>2. <<byte.led, byte.mode>> \in Places
  BY DEF Statuses, Places
<1>3. Receive(dev, byte) = [dev EXCEPT !.selected = <<byte.led, byte.mode>>]
  BY <1>1 DEF Receive
<1> QED
  BY <1>2, <1>3 DEF Devices

LEMMA ReceiveColour ==
  ASSUME NEW dev \in Devices, NEW byte \in Colours
  PROVE  /\ Receive(dev, byte) \in Devices
         /\ Receive(dev, byte).selected = dev.selected
         /\ \A x \in Places : Receive(dev, byte).shows[x] =
              IF dev.selected = x THEN byte ELSE dev.shows[x]
<1>1. "mode" \notin DOMAIN byte
  BY DEF Colours
<1>2. CASE dev.selected = << >>
  <2>1. << >> \notin Places
    BY DEF Places
  <2> QED
    BY <1>1, <1>2, <2>1 DEF Receive
<1>3. CASE dev.selected # << >>
  <2>1. dev.selected \in Places
    BY <1>3 DEF Devices
  <2>2. Receive(dev, byte) = [dev EXCEPT !.shows[dev.selected] = byte]
    BY <1>1, <1>3 DEF Receive
  <2> QED
    BY <2>1, <2>2 DEF Devices
<1> QED
  BY <1>2, <1>3

LEMMA Received ==
  ASSUME NEW dev \in Devices, NEW byte \in Bytes
  PROVE  Receive(dev, byte) \in Devices
  BY ReceiveStatus, ReceiveColour DEF Bytes

LEMMA RunIs ==
  ASSUME NEW d \in Devices, NEW bytes \in Seq(Bytes)
  PROVE  \E dev : IsRun(dev, d, bytes) /\ Run(d, bytes) = dev[Len(bytes)]
<1> DEFINE n == Len(bytes)
           step == [i \in 1 .. n |-> [v \in Devices |-> Receive(v, bytes[i])]]
           it == CHOOSE iter : IsFold(iter, d, bytes)
           dev == [k \in 0 .. n |-> it[1 .. k]]
<1>1. n \in Nat /\ DOMAIN bytes = 1 .. n /\ \A i \in 1 .. n : bytes[i] \in Bytes
  OBVIOUS
<1>2. step \in [1 .. n -> [Devices -> Devices]]
  BY <1>1, Received
<1>3. \A i \in 1 .. n, v \in Devices : step[i][v] = Receive(v, bytes[i])
  OBVIOUS
<1>4. Run(d, bytes) = it[1 .. n]
  BY <1>1, Zenon DEF Run, FoldLeft, MapThenFoldSet, IsFold
<1> HIDE DEF n, step
<1>5. PICK iter \in [SUBSET (1 .. n) -> Devices] : FoldOf(iter, n, d, step)
  BY <1>1, <1>2, Folded, Zenon
<1>6. \A s \in SUBSET (1 .. n) :
        iter[s] = IF s = {} THEN d ELSE Receive(iter[s \ {Max(s)}], bytes[Max(s)])
  <2> SUFFICES ASSUME NEW s \in SUBSET (1 .. n), s # {}
               PROVE  iter[s] = Receive(iter[s \ {Max(s)}], bytes[Max(s)])
    BY <1>5 DEF FoldOf
  <2>1. Max(s) \in 1 .. n /\ iter[s \ {Max(s)}] \in Devices
    BY <1>1, MaxIn
  <2> QED
    BY <1>3, <1>5, <2>1 DEF FoldOf
<1>7. IsFold(iter, d, bytes)
  BY <1>1, <1>6 DEF IsFold
<1>8. IsFold(it, d, bytes)
  BY <1>7, Zenon
<1> HIDE DEF it
<1>9. \A s \in SUBSET (1 .. n) :
        it[s] = IF s = {} THEN d ELSE Receive(it[s \ {Max(s)}], bytes[Max(s)])
  BY <1>1, <1>8 DEF IsFold
<1>10. dev[0] = d
  <2>1. 1 .. 0 = {} /\ 1 .. 0 \in SUBSET (1 .. n) /\ 0 \in 0 .. n
    BY <1>1
  <2> QED
    BY <1>9, <2>1
<1>11. \A k \in 1 .. n : dev[k] = Receive(dev[k - 1], bytes[k])
  <2> SUFFICES ASSUME NEW k \in 1 .. n PROVE it[1 .. k] = Receive(it[1 .. (k - 1)], bytes[k])
    BY <1>1
  <2>1. 1 .. k \in SUBSET (1 .. n)
    BY <1>1
  <2>2. Max(1 .. k) = k /\ (1 .. k) \ {k} = 1 .. (k - 1) /\ 1 .. k # {}
    BY <1>1, UptoNext
  <2> QED
    BY <1>9, <2>1, <2>2
<1>12. \A k \in 0 .. n : dev[k] \in Devices
  <2> DEFINE Bad == {k \in 0 .. n : dev[k] \notin Devices}
  <2> HIDE DEF dev
  <2>1. 0 \notin Bad /\ \A k \in 1 .. n : k - 1 \notin Bad => k \notin Bad
    BY <1>1, <1>10, <1>11, Received
  <2>2. Bad \subseteq 0 .. n /\ \A k \in 0 .. n : k \in Bad <=> dev[k] \notin Devices
    OBVIOUS
  <2> HIDE DEF Bad
  <2> QED
    BY <1>1, <2>1, <2>2, LeastFailure
<1>13. IsRun(dev, d, bytes)
  BY <1>10, <1>11, <1>12 DEF IsRun, n
<1>14. Run(d, bytes) = dev[n]
  BY <1>1, <1>4
<1> QED
  BY <1>13, <1>14 DEF n

LEMMA RunConcat ==
  ASSUME NEW d \in Devices, NEW s \in Seq(Bytes), NEW t \in Seq(Bytes)
  PROVE  Run(d, s) \in Devices /\ Run(d, s \o t) = Run(Run(d, s), t)
<1> DEFINE n == Len(s)
           m == Len(t)
<1>1. PICK f : IsRun(f, d, s) /\ Run(d, s) = f[n]
  BY RunIs
<1>2. /\ n \in Nat /\ m \in Nat /\ s \o t \in Seq(Bytes) /\ Len(s \o t) = n + m
      /\ \A k \in 1 .. n : (s \o t)[k] = s[k]
      /\ \A k \in 1 .. m : (s \o t)[n + k] = t[k]
  BY ConcatProperties
<1>3. Run(d, s) \in Devices
  BY <1>1, <1>2 DEF IsRun
<1>4. PICK g : IsRun(g, d, s \o t) /\ Run(d, s \o t) = g[n + m]
  <2>1. \E g : IsRun(g, d, s \o t) /\ Run(d, s \o t) = g[Len(s \o t)]
    BY <1>2, RunIs
  <2> QED
    BY <1>2, <2>1
<1>5. PICK h : IsRun(h, Run(d, s), t) /\ Run(Run(d, s), t) = h[m]
  BY <1>3, RunIs
<1> HIDE DEF n, m
<1>6. g[n] = f[n]
  <2> DEFINE Bad == {k \in 0 .. n : g[k] # f[k]}
  <2>1. 0 \notin Bad
    BY <1>1, <1>4 DEF IsRun
  <2>2. \A k \in 1 .. n : k - 1 \notin Bad => k \notin Bad
    <3> SUFFICES ASSUME NEW k \in 1 .. n, g[k - 1] = f[k - 1] PROVE g[k] = f[k]
      BY <1>2
    <3>1. k \in 1 .. (n + m)
      BY <1>2
    <3>2. f[k] = Receive(f[k - 1], s[k])
      BY <1>1 DEF IsRun, n
    <3>3. g[k] = Receive(g[k - 1], (s \o t)[k])
      BY <1>2, <1>4, <3>1 DEF IsRun
    <3> QED
      BY <1>2, <3>2, <3>3
  <2>3. Bad \subseteq 0 .. n /\ \A k \in 0 .. n : k \in Bad <=> g[k] # f[k]
    OBVIOUS
  <2> HIDE DEF Bad
  <2>4. Bad = {}
    BY <1>2, <2>1, <2>2, <2>3, LeastFailure
  <2> QED
    BY <1>2, <2>3, <2>4
<1>7. g[n + m] = h[m]
  <2> DEFINE Bad == {k \in 0 .. m : g[n + k] # h[k]}
  <2>1. 0 \notin Bad
    BY <1>1, <1>2, <1>5, <1>6 DEF IsRun
  <2>2. \A k \in 1 .. m : k - 1 \notin Bad => k \notin Bad
    <3> SUFFICES ASSUME NEW k \in 1 .. m, g[n + (k - 1)] = h[k - 1] PROVE g[n + k] = h[k]
      <4>1. \A k \in 1 .. m : k - 1 \in 0 .. m /\ k \in 0 .. m
        BY <1>2
      <4> QED
        BY <4>1
    <3>1. n + k \in 1 .. (n + m) /\ n + k - 1 = n + (k - 1)
      BY <1>2
    <3>2. h[k] = Receive(h[k - 1], t[k])
      BY <1>5 DEF IsRun, m
    <3>3. g[n + k] = Receive(g[n + k - 1], (s \o t)[n + k])
      BY <1>2, <1>4, <3>1 DEF IsRun
    <3> QED
      BY <1>2, <3>1, <3>2, <3>3
  <2>3. Bad \subseteq 0 .. m /\ \A k \in 0 .. m : k \in Bad <=> g[n + k] # h[k]
    OBVIOUS
  <2> HIDE DEF Bad
  <2>4. Bad = {}
    BY <1>2, <2>1, <2>2, <2>3, LeastFailure
  <2> QED
    BY <1>2, <2>3, <2>4
<1> QED
  BY <1>3, <1>4, <1>5, <1>7

LEMMA RunPair ==
  ASSUME NEW d \in Devices, NEW a \in Bytes, NEW b \in Bytes
  PROVE  Run(d, <<a, b>>) = Receive(Receive(d, a), b)
<1>1. <<a, b>> \in Seq(Bytes) /\ Len(<<a, b>>) = 2
  OBVIOUS
<1>2. PICK f : IsRun(f, d, <<a, b>>) /\ Run(d, <<a, b>>) = f[2]
  BY <1>1, RunIs
<1>3. f[0] = d /\ f[1] = Receive(f[0], a) /\ f[2] = Receive(f[1], b)
  <2>1. /\ f[0] = d /\ f[1] = Receive(f[1 - 1], <<a, b>>[1])
        /\ f[2] = Receive(f[2 - 1], <<a, b>>[2])
    BY <1>1, <1>2 DEF IsRun
  <2> QED
    BY <2>1
<1> QED
  BY <1>2, <1>3

LEMMA RunNothing ==
  ASSUME NEW d \in Devices
  PROVE  Run(d, << >>) = d
<1>1. << >> \in Seq(Bytes) /\ Len(<< >>) = 0
  OBVIOUS
<1> QED
  BY <1>1, RunIs DEF IsRun

-----------------------------------------------------------------------------
(* Sequences of commands.                                                  *)

IsFlat(flat, seqs) ==
  flat = [i \in 1 .. Len(seqs) |-> IF i = 1 THEN seqs[i] ELSE flat[i - 1] \o seqs[i]]

(* The first i of seqs, one after the other.                               *)
Joins(f, seqs) ==
  /\ f \in [0 .. Len(seqs) -> Seq(Bytes)]
  /\ f[0] = << >>
  /\ \A i \in 1 .. Len(seqs) : f[i] = f[i - 1] \o seqs[i]

LEMMA JoinsExists ==
  ASSUME NEW seqs \in Seq(Seq(Bytes))
  PROVE  \E f : Joins(f, seqs)
<1> DEFINE n == Len(seqs)
           step == [i \in 1 .. n |-> [v \in Seq(Bytes) |-> v \o seqs[i]]]
<1>1. n \in Nat /\ << >> \in Seq(Bytes) /\ \A i \in 1 .. n : seqs[i] \in Seq(Bytes)
  OBVIOUS
<1>2. step \in [1 .. n -> [Seq(Bytes) -> Seq(Bytes)]]
  BY <1>1, ConcatProperties
<1>3. \A i \in 1 .. n, v \in Seq(Bytes) : step[i][v] = v \o seqs[i]
  OBVIOUS
<1> HIDE DEF n, step
<1>4. PICK iter \in [SUBSET (1 .. n) -> Seq(Bytes)] : FoldOf(iter, n, << >>, step)
  BY <1>1, <1>2, Folded, Zenon
<1> DEFINE f == [i \in 0 .. n |-> iter[1 .. i]]
<1>5. \A i \in 0 .. n : 1 .. i \in SUBSET (1 .. n) /\ f[i] = iter[1 .. i] /\ f[i] \in Seq(Bytes)
  BY <1>1
<1>6. f \in [0 .. n -> Seq(Bytes)]
  BY <1>5
<1> HIDE DEF f
<1>7. f[0] = << >>
  <2>1. 0 \in 0 .. n /\ 1 .. 0 = {}
    BY <1>1
  <2> QED
    BY <1>4, <1>5, <2>1 DEF FoldOf
<1>8. ASSUME NEW i \in 1 .. n PROVE f[i] = f[i - 1] \o seqs[i]
  <2>1. i \in 0 .. n /\ i - 1 \in 0 .. n
    BY <1>1
  <2>2. Max(1 .. i) = i /\ (1 .. i) \ {i} = 1 .. (i - 1) /\ 1 .. i # {}
    BY <1>1, UptoNext
  <2>3. iter[1 .. i] = step[i][iter[1 .. (i - 1)]]
    BY <1>4, <1>5, <2>1, <2>2 DEF FoldOf
  <2> QED
    BY <1>3, <1>5, <2>1, <2>3
<1> QED
  BY <1>6, <1>7, <1>8 DEF Joins, n

LEMMA FlattenIs ==
  ASSUME NEW seqs \in Seq(Seq(Bytes))
  PROVE  \E f : Joins(f, seqs) /\ FlattenSeq(seqs) = f[Len(seqs)]
<1> DEFINE n == Len(seqs)
           flat == CHOOSE g : IsFlat(g, seqs)
<1>1. PICK f : Joins(f, seqs)
  BY JoinsExists
<1>2. /\ n \in Nat /\ f[0] = << >>
      /\ \A i \in 1 .. n : f[i] = f[i - 1] \o seqs[i]
      /\ \A i \in 1 .. n : seqs[i] \in Seq(Bytes)
  <2>1. n \in Nat /\ \A i \in 1 .. n : seqs[i] \in Seq(Bytes)
    OBVIOUS
  <2> QED
    BY <1>1, <2>1 DEF Joins
<1>3. FlattenSeq(seqs) = IF n = 0 THEN seqs ELSE flat[n]
  BY Zenon DEF FlattenSeq, IsFlat
<1>4. IsFlat([i \in 1 .. n |-> f[i]], seqs)
  <2> DEFINE g == [i \in 1 .. n |-> f[i]]
  <2>1. ASSUME NEW i \in 1 .. n
        PROVE  f[i] = IF i = 1 THEN seqs[i] ELSE g[i - 1] \o seqs[i]
    <3>1. CASE i = 1
      <4>1. f[1] = << >> \o seqs[1]
        <5>1. f[i] = f[i - 1] \o seqs[i]
          BY <1>2
        <5>2. i - 1 = 0
          BY <3>1
        <5> QED
          BY <1>2, <3>1, <5>1, <5>2
      <4> QED
        BY <1>2, <3>1, <4>1, ConcatEmptySeq
    <3>2. CASE i # 1
      <4>1. i - 1 \in 1 .. n
        BY <1>2, <3>2
      <4> QED
        BY <1>2, <3>2, <4>1
    <3> QED
      BY <3>1, <3>2
  <2>2. g = [i \in 1 .. n |-> IF i = 1 THEN seqs[i] ELSE g[i - 1] \o seqs[i]]
    BY <2>1
  <2> QED
    BY <2>2 DEF IsFlat
<1>5. IsFlat(flat, seqs)
  BY <1>4, Zenon
<1> HIDE DEF flat
<1>6. \A i \in 1 .. n : flat[i] = IF i = 1 THEN seqs[i] ELSE flat[i - 1] \o seqs[i]
  BY <1>5 DEF IsFlat
<1> HIDE DEF n
<1>7. \A i \in 1 .. n : flat[i] = f[i]
  <2> DEFINE Bad == {i \in 0 .. n : i # 0 /\ flat[i] # f[i]}
  <2>1. 0 \notin Bad
    OBVIOUS
  <2>2. \A i \in 1 .. n : i - 1 \notin Bad => i \notin Bad
    <3> SUFFICES ASSUME NEW i \in 1 .. n, i - 1 \notin Bad PROVE flat[i] = f[i]
      BY <1>2
    <3>1. CASE i = 1
      <4>1. f[1] = << >> \o seqs[1]
        <5>1. f[i] = f[i - 1] \o seqs[i]
          BY <1>2
        <5>2. i - 1 = 0
          BY <3>1
        <5> QED
          BY <1>2, <3>1, <5>1, <5>2
      <4>2. f[1] = seqs[1]
        BY <1>2, <3>1, <4>1, ConcatEmptySeq
      <4> QED
        BY <1>6, <3>1, <4>2
    <3>2. CASE i # 1
      <4>1. i - 1 \in 0 .. n /\ i - 1 # 0
        BY <1>2, <3>2
      <4>2. flat[i - 1] = f[i - 1]
        BY <4>1
      <4> QED
        BY <1>2, <1>6, <3>2, <4>2
    <3> QED
      BY <3>1, <3>2
  <2>3. Bad \subseteq 0 .. n /\ \A i \in 0 .. n : i \in Bad <=> (i # 0 /\ flat[i] # f[i])
    OBVIOUS
  <2> HIDE DEF Bad
  <2>4. Bad = {}
    BY <1>2, <2>1, <2>2, <2>3, LeastFailure
  <2> QED
    BY <1>2, <2>3, <2>4
<1>8. CASE n = 0
  <2>1. seqs = << >>
    BY <1>8 DEF n
  <2> QED
    BY <1>1, <1>2, <1>3, <1>8, <2>1 DEF n
<1>9. CASE n # 0
  <2>1. n \in 1 .. n
    BY <1>2, <1>9
  <2> QED
    BY <1>1, <1>3, <1>7, <1>9, <2>1 DEF n
<1> QED
  BY <1>8, <1>9

(* d2 shows the LEDs in told as they are in leds, and the others as d does. *)
IsTold(d2, d, leds, told) ==
  /\ d2 \in Devices
  /\ \A x \in Leds, m \in 1 .. Modes :
       d2.shows[<<x, m>>] = IF x \in told THEN Shows(leds[x]) ELSE d.shows[<<x, m>>]

LEMMA CommandTold ==
  ASSUME NEW d \in Devices, NEW x \in Leds, NEW m \in 1 .. Modes, NEW colour \in Colours
  PROVE  LET d2 == Run(d, <<[led |-> x, mode |-> m], colour>>)
         IN  /\ d2 \in Devices
             /\ \A p \in Places : d2.shows[p] = IF p = <<x, m>> THEN colour ELSE d.shows[p]
<1> DEFINE st == [led |-> x, mode |-> m]
           d1 == Receive(d, st)
           d2 == Receive(d1, colour)
<1>1. st \in Statuses /\ st.led = x /\ st.mode = m
  BY DEF Statuses
<1> HIDE DEF st
<1>2. d1 \in Devices /\ d1.shows = d.shows /\ d1.selected = <<x, m>>
  BY <1>1, ReceiveStatus
<1> HIDE DEF d1
<1>3. d2 \in Devices /\ \A p \in Places : d2.shows[p] = IF d1.selected = p THEN colour ELSE d1.shows[p]
  BY <1>2, ReceiveColour
<1> HIDE DEF d2
<1>4. Run(d, <<st, colour>>) = d2
  BY <1>1, RunPair DEF Bytes, d1, d2
<1>5. \A p \in Places : d2.shows[p] = IF p = <<x, m>> THEN colour ELSE d.shows[p]
  BY <1>2, <1>3
<1> QED
  BY <1>3, <1>4, <1>5 DEF st

LEMMA CommandsTold ==
  ASSUME NEW d \in Devices, NEW leds \in [Leds -> Led], NEW x \in Leds
  PROVE  /\ Commands(x, leds) \in Seq(Bytes)
         /\ Len(Commands(x, leds)) = 2 * Modes
         /\ IsTold(Run(d, Commands(x, leds)), d, leds, {x})
<1> DEFINE colour == Shows(leds[x])
           pair(m) == <<[led |-> x, mode |-> m], colour>>
           seqs == [m \in 1 .. Modes |-> pair(m)]
<1>0. Modes \in Nat /\ Modes # 0
  BY DicerAssumption
<1>1. colour \in Colours
  BY DEF Shows, Led, Colours
<1>c. Commands(x, leds) = FlattenSeq(seqs)
  BY DEF Commands
<1> HIDE DEF colour
<1>2. ASSUME NEW m \in 1 .. Modes PROVE pair(m) \in Seq(Bytes) /\ Len(pair(m)) = 2
  <2>1. [led |-> x, mode |-> m] \in Bytes /\ colour \in Bytes
    BY <1>1 DEF Bytes, Statuses
  <2> QED
    BY <2>1
<1>3. ASSUME NEW e \in Devices, NEW m \in 1 .. Modes
      PROVE  /\ Run(e, pair(m)) \in Devices
             /\ \A p \in Places : Run(e, pair(m)).shows[p] = IF p = <<x, m>> THEN colour ELSE e.shows[p]
  BY <1>1, CommandTold
<1> HIDE DEF pair
<1>4. seqs \in Seq(Seq(Bytes)) /\ Len(seqs) = Modes /\ \A m \in 1 .. Modes : seqs[m] = pair(m)
  BY <1>0, <1>2
<1> HIDE DEF seqs
<1>5. PICK f : Joins(f, seqs) /\ FlattenSeq(seqs) = f[Modes]
  BY <1>4, FlattenIs
<1>6. /\ f \in [0 .. Modes -> Seq(Bytes)] /\ f[0] = << >>
      /\ \A m \in 1 .. Modes : f[m] = f[m - 1] \o pair(m)
  BY <1>4, <1>5 DEF Joins
<1> DEFINE Good(k) ==
             /\ Len(f[k]) = 2 * k
             /\ Run(d, f[k]) \in Devices
             /\ \A y \in Leds, m \in 1 .. Modes : Run(d, f[k]).shows[<<y, m>>] =
                  IF y = x /\ m <= k THEN colour ELSE d.shows[<<y, m>>]
           Bad == {k \in 0 .. Modes : ~Good(k)}
<1>7. Good(0)
  BY <1>6, RunNothing
<1>8. ASSUME NEW k \in 1 .. Modes, Good(k - 1) PROVE Good(k)
  <2> DEFINE e == Run(d, f[k - 1])
  <2>1. k \in Nat /\ k - 1 \in 0 .. Modes /\ f[k - 1] \in Seq(Bytes)
    BY <1>0, <1>6
  <2>2. e \in Devices /\ \A y \in Leds, m \in 1 .. Modes : e.shows[<<y, m>>] =
               IF y = x /\ m <= k - 1 THEN colour ELSE d.shows[<<y, m>>]
    BY <1>8
  <2>p. f[k] = f[k - 1] \o pair(k) /\ pair(k) \in Seq(Bytes) /\ Len(pair(k)) = 2
    BY <1>2, <1>6
  <2>3. Len(f[k]) = 2 * k
    <3>1. Len(f[k - 1]) = 2 * (k - 1)
      BY <1>8
    <3>2. Len(f[k]) = Len(f[k - 1]) + 2
      <4>1. Len(f[k - 1] \o pair(k)) = Len(f[k - 1]) + Len(pair(k))
        BY <2>1, <2>p, ConcatProperties, Zenon
      <4> QED
        BY <2>p, <4>1
    <3> QED
      BY <2>1, <3>1, <3>2
  <2>4. Run(d, f[k]) = Run(e, pair(k))
    BY <2>1, <2>p, RunConcat
  <2> HIDE DEF e
  <2>5. /\ Run(d, f[k]) \in Devices
        /\ \A p \in Places : Run(d, f[k]).shows[p] = IF p = <<x, k>> THEN colour ELSE e.shows[p]
    BY <1>3, <2>2, <2>4
  <2>6. ASSUME NEW y \in Leds, NEW m \in 1 .. Modes
        PROVE  Run(d, f[k]).shows[<<y, m>>] = IF y = x /\ m <= k THEN colour ELSE d.shows[<<y, m>>]
    <3>1. <<y, m>> \in Places /\ (<<y, m>> = <<x, k>> <=> y = x /\ m = k)
      BY DEF Places
    <3>2. m \in Nat /\ (m <= k <=> m = k \/ m <= k - 1)
      BY <2>1
    <3> QED
      BY <2>2, <2>5, <3>1, <3>2
  <2> QED
    BY <2>3, <2>5, <2>6
<1>9. Bad \subseteq 0 .. Modes /\ \A k \in 0 .. Modes : k \in Bad <=> ~Good(k)
  OBVIOUS
<1> HIDE DEF Good, Bad
<1>10. Bad = {}
  <2>1. 0 \notin Bad /\ \A k \in 1 .. Modes : k - 1 \notin Bad => k \notin Bad
    <3>1. \A k \in 1 .. Modes : k - 1 \in 0 .. Modes /\ k \in 0 .. Modes
      BY <1>0
    <3> QED
      BY <1>0, <1>7, <1>8, <1>9, <3>1
  <2> QED
    BY <1>0, <1>9, <2>1, LeastFailure
<1>11. Good(Modes)
  BY <1>0, <1>9, <1>10
<1>12. Commands(x, leds) = f[Modes] /\ f[Modes] \in Seq(Bytes)
  BY <1>0, <1>c, <1>5, <1>6
<1>13. /\ Len(f[Modes]) = 2 * Modes /\ Run(d, f[Modes]) \in Devices
       /\ \A y \in Leds, m \in 1 .. Modes : Run(d, f[Modes]).shows[<<y, m>>] =
            IF y = x /\ m <= Modes THEN colour ELSE d.shows[<<y, m>>]
  BY <1>11 DEF Good
<1>14. IsTold(Run(d, f[Modes]), d, leds, {x})
  BY <1>0, <1>13 DEF IsTold, colour
<1> QED
  BY <1>12, <1>13, <1>14

(* The commands of all the LEDs of fit, in order.                          *)
LEMMA AllTold ==
  ASSUME NEW d \in Devices, NEW leds \in [Leds -> Led], NEW fit \in Seq(Leds)
  PROVE  LET bytes == FlattenSeq([i \in DOMAIN fit |-> Commands(fit[i], leds)])
         IN  /\ bytes \in Seq(Bytes)
             /\ Len(bytes) = (2 * Modes) * Len(fit)
             /\ IsTold(Run(d, bytes), d, leds, ToSet(fit))
<1> DEFINE n == Len(fit)
           size == 2 * Modes
           cmds(i) == Commands(fit[i], leds)
           seqs == [i \in DOMAIN fit |-> cmds(i)]
<1>0. n \in Nat /\ size \in Nat /\ DOMAIN fit = 1 .. n /\ \A i \in 1 .. n : fit[i] \in Leds
  BY DicerAssumption
<1>1. ASSUME NEW i \in 1 .. n
      PROVE  /\ cmds(i) \in Seq(Bytes) /\ Len(cmds(i)) = size
             /\ \A e \in Devices : IsTold(Run(e, cmds(i)), e, leds, {fit[i]})
  BY <1>0, CommandsTold
<1> HIDE DEF cmds, size
<1>2. /\ seqs \in Seq(Seq(Bytes)) /\ Len(seqs) = n
      /\ \A i \in 1 .. n : seqs[i] = cmds(i)
  <2>1. seqs = [i \in 1 .. n |-> cmds(i)]
    BY <1>0
  <2>2. \A i \in 1 .. n : cmds(i) \in Seq(Bytes)
    BY <1>1
  <2> HIDE DEF seqs, n
  <2> QED
    BY <1>0, <2>1, <2>2
<1>3. PICK f : Joins(f, seqs) /\ FlattenSeq(seqs) = f[n]
  BY <1>2, FlattenIs
<1> HIDE DEF seqs
<1>4. /\ f \in [0 .. n -> Seq(Bytes)] /\ f[0] = << >>
      /\ \A i \in 1 .. n : f[i] = f[i - 1] \o cmds(i)
  BY <1>2, <1>3 DEF Joins
<1> DEFINE told(k) == {fit[i] : i \in 1 .. k}
           Good(k) == Len(f[k]) = size * k /\ IsTold(Run(d, f[k]), d, leds, told(k))
           Bad == {k \in 0 .. n : ~Good(k)}
<1> HIDE DEF n
<1>5. Good(0)
  <2>1. Len(f[0]) = size * 0
    BY <1>0, <1>4
  <2>2. told(0) = {}
    OBVIOUS
  <2>3. IsTold(Run(d, f[0]), d, leds, {})
    BY <1>4, RunNothing DEF IsTold
  <2> QED
    BY <2>1, <2>2, <2>3
<1>6. ASSUME NEW k \in 1 .. n, Good(k - 1) PROVE Good(k)
  <2> DEFINE e == Run(d, f[k - 1])
  <2>1. /\ k - 1 \in 0 .. n /\ f[k - 1] \in Seq(Bytes) /\ f[k] = f[k - 1] \o cmds(k)
        /\ cmds(k) \in Seq(Bytes) /\ Len(cmds(k)) = size
    <3>1. k - 1 \in 0 .. n
      BY <1>0
    <3>2. f[k - 1] \in Seq(Bytes) /\ f[k] = f[k - 1] \o cmds(k)
      BY <1>4, <3>1
    <3>3. cmds(k) \in Seq(Bytes) /\ Len(cmds(k)) = size
      BY <1>1
    <3> QED
      BY <3>1, <3>2, <3>3
  <2>2. Len(f[k]) = size * k
    <3>1. Len(f[k]) = size * (k - 1) + size
      BY <1>6, <2>1, ConcatProperties
    <3>2. k \in Nat /\ size * (k - 1) + size = size * k
      BY <1>0
    <3> QED
      BY <3>1, <3>2
  <2>3. Run(d, f[k]) = Run(e, cmds(k))
    BY <2>1, RunConcat
  <2>4. IsTold(e, d, leds, told(k - 1))
    BY <1>6
  <2>5. told(k) = told(k - 1) \cup {fit[k]}
    <3>1. \A i : i \in 1 .. k <=> i \in 1 .. (k - 1) \/ i = k
      BY <1>0
    <3> QED
      BY <3>1
  <2> HIDE DEF e, told
  <2>6. IsTold(Run(e, cmds(k)), e, leds, {fit[k]})
    BY <1>1, <2>4 DEF IsTold
  <2>7. IsTold(Run(e, cmds(k)), d, leds, told(k))
    BY <2>4, <2>5, <2>6 DEF IsTold
  <2> QED
    BY <2>2, <2>3, <2>7
<1>7. Bad \subseteq 0 .. n /\ \A k \in 0 .. n : k \in Bad <=> ~Good(k)
  OBVIOUS
<1> HIDE DEF Good, Bad
<1>8. Bad = {}
  <2>1. 0 \notin Bad /\ \A k \in 1 .. n : k - 1 \notin Bad => k \notin Bad
    <3>1. \A k \in 1 .. n : k - 1 \in 0 .. n /\ k \in 0 .. n
      BY <1>0
    <3> QED
      BY <1>0, <1>5, <1>6, <1>7, <3>1
  <2> QED
    BY <1>0, <1>7, <2>1, LeastFailure
<1>9. Good(n) /\ n \in 0 .. n
  BY <1>0, <1>7, <1>8
<1>10. told(n) = ToSet(fit)
  BY <1>0 DEF ToSet
<1>11. Len(f[n]) = size * n /\ f[n] \in Seq(Bytes) /\ IsTold(Run(d, f[n]), d, leds, ToSet(fit))
  BY <1>4, <1>9, <1>10 DEF Good
<1> QED
  BY <1>3, <1>11 DEF seqs, cmds, size, n

-----------------------------------------------------------------------------
(* The LEDs that fit.                                                      *)

IsFitting(iter, leds, room) ==
  iter = [s \in SUBSET DOMAIN Order |->
           IF s = {} THEN << >>
           ELSE LET i == Max(s)
                    fit == iter[s \ {i}]
                IN  IF leds[Order[i]].SYNCED \/ Len(fit) >= room \div (2 * Modes) THEN fit
                    ELSE Append(fit, Order[i])]

LEMMA FittingIs ==
  ASSUME NEW leds \in [Leds -> Led], NEW room \in Nat
  PROVE  /\ Fitting(leds, room) \in Seq(Leds)
         /\ Len(Fitting(leds, room)) <= room \div (2 * Modes)
<1> DEFINE n == Len(Order)
           cap == room \div (2 * Modes)
           on(fit, x) == IF leds[x].SYNCED \/ Len(fit) >= cap THEN fit ELSE Append(fit, x)
           V == {fit \in Seq(Leds) : Len(fit) <= cap}
           step == [i \in 1 .. n |-> [fit \in V |-> on(fit, Order[i])]]
           it == CHOOSE iter : IsFitting(iter, leds, room)
<1>0. n \in Nat /\ DOMAIN Order = 1 .. n /\ \A i \in 1 .. n : Order[i] \in Leds
  BY DicerAssumption DEF Leds
<1>1. cap \in Nat
  BY DicerAssumption
<1>2. Fitting(leds, room) = it[DOMAIN Order]
  BY Zenon DEF Fitting, FoldLeft, MapThenFoldSet, IsFitting
<1> HIDE DEF n, cap
<1>3. \A fit \in V, x \in Leds : on(fit, x) \in V
  <2> SUFFICES ASSUME NEW fit \in Seq(Leds), Len(fit) <= cap, NEW x \in Leds,
                      ~(Len(fit) >= cap)
               PROVE  Append(fit, x) \in Seq(Leds) /\ Len(Append(fit, x)) <= cap
    OBVIOUS
  <2>1. Len(fit) \in Nat /\ Append(fit, x) \in Seq(Leds) /\ Len(Append(fit, x)) = Len(fit) + 1
    OBVIOUS
  <2> QED
    BY <1>1, <2>1
<1>4. << >> \in V
  BY <1>1
<1>v. \A fit : fit \in V <=> fit \in Seq(Leds) /\ Len(fit) <= cap
  OBVIOUS
<1> HIDE DEF V
<1>5. step \in [1 .. n -> [V -> V]]
  BY <1>0, <1>3
<1>6. \A i \in 1 .. n, fit \in V : step[i][fit] = on(fit, Order[i])
  OBVIOUS
<1> HIDE DEF step
<1>7. PICK iter \in [SUBSET (1 .. n) -> V] : FoldOf(iter, n, << >>, step)
  BY <1>0, <1>4, <1>5, Folded, Zenon
<1>8. \A s \in SUBSET (1 .. n) : iter[s] = IF s = {} THEN << >> ELSE on(iter[s \ {Max(s)}], Order[Max(s)])
  <2> SUFFICES ASSUME NEW s \in SUBSET (1 .. n), s # {}
               PROVE  iter[s] = on(iter[s \ {Max(s)}], Order[Max(s)])
    BY <1>7 DEF FoldOf
  <2>1. Max(s) \in 1 .. n /\ iter[s \ {Max(s)}] \in V
    BY <1>0, MaxIn
  <2> HIDE DEF on
  <2> QED
    BY <1>6, <1>7, <2>1 DEF FoldOf
<1>9. IsFitting(iter, leds, room)
  BY <1>0, <1>8 DEF IsFitting, cap
<1>10. IsFitting(it, leds, room)
  BY <1>9, Zenon
<1> HIDE DEF it
<1>11. \A s \in SUBSET (1 .. n) : it[s] = IF s = {} THEN << >> ELSE on(it[s \ {Max(s)}], Order[Max(s)])
  BY <1>0, <1>10 DEF IsFitting, cap
<1> DEFINE Bad == {k \in 0 .. n : it[1 .. k] \notin V}
<1> HIDE DEF on
<1>12. 0 \notin Bad
  <2>1. 1 .. 0 = {} /\ 1 .. 0 \in SUBSET (1 .. n)
    OBVIOUS
  <2> QED
    BY <1>4, <1>11, <2>1
<1>13. ASSUME NEW k \in 1 .. n, k - 1 \notin Bad PROVE k \notin Bad
  <2>1. 1 .. k \in SUBSET (1 .. n) /\ k - 1 \in 0 .. n
    BY <1>0
  <2>2. Max(1 .. k) = k /\ (1 .. k) \ {k} = 1 .. (k - 1) /\ 1 .. k # {}
    BY <1>0, UptoNext
  <2>3. it[1 .. k] = on(it[1 .. (k - 1)], Order[k])
    BY <1>11, <2>1, <2>2
  <2>4. it[1 .. (k - 1)] \in V
    BY <1>13, <2>1
  <2> QED
    BY <1>0, <1>3, <2>3, <2>4
<1>14. Bad \subseteq 0 .. n /\ \A k \in 0 .. n : k \in Bad <=> it[1 .. k] \notin V
  OBVIOUS
<1> HIDE DEF Bad
<1>15. Bad = {}
  BY <1>0, <1>12, <1>13, <1>14, LeastFailure
<1>16. it[1 .. n] \in V
  BY <1>0, <1>14, <1>15
<1> QED
  BY <1>0, <1>2, <1>16, <1>v DEF cap

-----------------------------------------------------------------------------
(* The buffer, and what it will have shown.                                *)

BufferInv == obuf \in Seq(Bytes) /\ Len(obuf) <= OBUF /\ device \in Devices

(* Each LED that leds marks as synced is shown, once obuf is written.      *)
Told(leds) ==
  \A x \in Leds, mode \in 1 .. Modes :
    leds[x].SYNCED => Run(device, obuf).shows[<<x, mode>>] = Shows(leds[x])

LEMMA ToldIs == (SyncedIsShown <=> Told(led)) /\ (Told(led)' <=> SyncedIsShown')
  BY DEF SyncedIsShown, Told, Written, Run

LEMMA RoomFor ==
  ASSUME NEW a \in Nat, NEW b \in Nat, b # 0, NEW c \in Nat, c <= a \div b
  PROVE  b * c <= a
<1> DEFINE q == a \div b
<1>1. q \in Nat /\ b * q <= a
  OBVIOUS
<1>2. PICK k \in Nat : q = c + k
  <2>1. q - c \in Nat /\ q = c + (q - c)
    BY <1>1
  <2> QED
    BY <2>1
<1> HIDE DEF q
<1>3. b * q = b * c + b * k /\ b * k \in Nat /\ b * c \in Nat
  BY <1>1, <1>2
<1> QED
  BY <1>1, <1>3

(* Half of the buffer or none of it: memmove() then moves what remains.    *)
LEMMA RemainingIs ==
  ASSUME NEW bytes \in Seq(Bytes), NEW z \in 0 .. Len(bytes)
  PROVE  /\ Remaining(bytes, z) \in Seq(Bytes)
         /\ Len(Remaining(bytes, z)) = Len(bytes) - z
         /\ SubSeq(bytes, 1, z) \in Seq(Bytes)
         /\ z = 0 \/ 2 * z >= Len(bytes) => bytes = SubSeq(bytes, 1, z) \o Remaining(bytes, z)
<1> DEFINE n == Len(bytes)
           pre == SubSeq(bytes, 1, z)
           rest == Remaining(bytes, z)
<1>0. n \in Nat /\ n - z \in Nat /\ z \in Nat /\ z <= n /\ \A i \in 1 .. n : bytes[i] \in Bytes
  OBVIOUS
<1>1. pre \in Seq(Bytes) /\ Len(pre) = z /\ \A i \in 1 .. z : pre[i] = bytes[i]
  OBVIOUS
<1>2. \A i \in 1 .. (n - z) : (IF i <= z THEN bytes[i + z] ELSE bytes[i]) \in Bytes
  BY <1>0
<1>3. rest = [i \in 1 .. (n - z) |-> IF i <= z THEN bytes[i + z] ELSE bytes[i]]
  BY DEF Remaining
<1> HIDE DEF n, pre, rest
<1>4. /\ rest \in Seq(Bytes) /\ Len(rest) = n - z
      /\ \A i \in 1 .. (n - z) : rest[i] = IF i <= z THEN bytes[i + z] ELSE bytes[i]
  BY <1>0, <1>2, <1>3
<1>5. ASSUME z = 0 \/ 2 * z >= n PROVE bytes = pre \o rest
  <2>1. /\ pre \o rest \in Seq(Bytes) /\ Len(pre \o rest) = n
        /\ \A i \in 1 .. n : (pre \o rest)[i] = IF i <= z THEN pre[i] ELSE rest[i - z]
    <3>1. /\ pre \o rest \in Seq(Bytes) /\ Len(pre \o rest) = Len(pre) + Len(rest)
          /\ \A i \in 1 .. Len(pre) + Len(rest) :
               (pre \o rest)[i] = IF i <= Len(pre) THEN pre[i] ELSE rest[i - Len(pre)]
      BY <1>1, <1>4, ConcatProperties, Zenon
    <3>2. Len(pre) = z /\ Len(pre) + Len(rest) = n
      BY <1>0, <1>1, <1>4
    <3> QED
      BY <3>1, <3>2
  <2>2. ASSUME NEW i \in 1 .. n PROVE (pre \o rest)[i] = bytes[i]
    <3>1. CASE i <= z
      <4>1. i \in 1 .. z
        BY <1>0, <3>1
      <4> QED
        BY <1>1, <2>1, <3>1, <4>1
    <3>2. CASE ~(i <= z)
      <4>1. i - z \in 1 .. (n - z) /\ i - z + z = i
        BY <1>0, <3>2
      <4>2. rest[i - z] = IF i - z <= z THEN bytes[i] ELSE bytes[i - z]
        BY <1>4, <4>1
      <4>3. z = 0 => i - z = i
        OBVIOUS
      <4>4. z # 0 => i - z <= z
        BY <1>0, <1>5
      <4> QED
        BY <2>1, <3>2, <4>2, <4>3, <4>4
    <3> QED
      BY <3>1, <3>2
  <2> QED
    BY <2>1, <2>2, SeqEqual DEF n
<1> QED
  BY <1>1, <1>4, <1>5 DEF n, pre, rest

LEMMA SyncTold ==
  ASSUME NEW leds \in [Leds -> Led], BufferInv, SyncAllLeds(leds)
  PROVE  BufferInv' /\ (~ShortWrites /\ Told(leds) => SyncedIsShown')
<1> DEFINE room == OBUF - Len(obuf)
           fit == Fitting(leds, room)
           new == FlattenSeq([i \in DOMAIN fit |-> Commands(fit[i], leds)])
           bytes == obuf \o new
           shown == Run(device, obuf)
<1>0. /\ obuf \in Seq(Bytes) /\ Len(obuf) \in Nat /\ room \in Nat /\ device \in Devices
      /\ OBUF \in Nat /\ 2 * Modes \in Nat /\ 2 * Modes # 0
  BY DicerAssumption DEF BufferInv
<1>1. PICK z \in Taken(Len(bytes)) :
        /\ led' = Marked(leds, ToSet(fit))
        /\ obuf' = Remaining(bytes, z)
        /\ device' = Written(SubSeq(bytes, 1, z))
  BY DEF SyncAllLeds
<1> HIDE DEF room
<1>2. fit \in Seq(Leds) /\ Len(fit) \in Nat /\ Len(fit) <= room \div (2 * Modes)
  BY <1>0, FittingIs
<1> HIDE DEF fit
<1>3. shown \in Devices
  BY <1>0, <1>2, RunConcat
<1>4. /\ new \in Seq(Bytes) /\ Len(new) = (2 * Modes) * Len(fit)
      /\ IsTold(Run(shown, new), shown, leds, ToSet(fit))
  BY <1>2, <1>3, AllTold
<1> HIDE DEF new
<1>5. bytes \in Seq(Bytes) /\ Len(bytes) = Len(obuf) + Len(new) /\ Len(bytes) <= OBUF
  <2>1. Len(new) <= room /\ Len(new) \in Nat
    BY <1>0, <1>2, <1>4, RoomFor
  <2> QED
    <3>1. bytes \in Seq(Bytes) /\ Len(bytes) = Len(obuf) + Len(new)
      BY <1>0, <1>4, ConcatProperties, Zenon
    <3> QED
      BY <1>0, <2>1, <3>1 DEF room
<1>6. Run(device, bytes) = Run(shown, new)
  BY <1>0, <1>4, RunConcat
<1> HIDE DEF bytes
<1>7. z \in 0 .. Len(bytes) /\ (~ShortWrites => z = 0 \/ 2 * z >= Len(bytes))
  BY <1>1 DEF Taken
<1>8. /\ obuf' \in Seq(Bytes) /\ Len(obuf') = Len(bytes) - z
      /\ SubSeq(bytes, 1, z) \in Seq(Bytes)
      /\ ~ShortWrites => bytes = SubSeq(bytes, 1, z) \o obuf'
  BY <1>1, <1>5, <1>7, RemainingIs
<1>9. device' = Run(device, SubSeq(bytes, 1, z)) /\ device' \in Devices
  BY <1>0, <1>1, <1>8, RunConcat DEF Written, Run
<1>10. BufferInv'
  BY <1>0, <1>5, <1>7, <1>8, <1>9 DEF BufferInv
<1>11. ASSUME ~ShortWrites, Told(leds) PROVE SyncedIsShown'
  <2>1. Run(device', obuf') = Run(shown, new)
    <3> DEFINE pre == SubSeq(bytes, 1, z)
    <3>1. pre \in Seq(Bytes) /\ bytes = pre \o obuf'
      BY <1>8, <1>11
    <3> HIDE DEF pre
    <3>2. Run(device, pre \o obuf') = Run(Run(device, pre), obuf')
      BY <1>0, <1>8, <3>1, RunConcat
    <3> QED
      BY <1>6, <1>9, <3>1, <3>2 DEF pre
  <2> HIDE DEF shown
  <2>2. ASSUME NEW x \in Leds, NEW mode \in 1 .. Modes, led'[x].SYNCED
        PROVE  Run(device', obuf').shows[<<x, mode>>] = Shows(led'[x])
    <3>1. /\ x \in ToSet(fit) \/ leds[x].SYNCED
          /\ Shows(led'[x]) = Shows(leds[x])
      BY <1>1, <2>2 DEF Marked, Shows, Led
    <3>2. leds[x].SYNCED => shown.shows[<<x, mode>>] = Shows(leds[x])
      BY <1>11 DEF Told, shown
    <3> QED
      BY <1>4, <2>1, <3>1, <3>2 DEF IsTold
  <2> QED
    BY <2>2, ToldIs DEF Told
<1> QED
  BY <1>10, <1>11

LEMMA InitTold == Init => BufferInv /\ SyncedIsShown
<1> SUFFICES ASSUME Init PROVE BufferInv /\ SyncedIsShown
  OBVIOUS
<1>1. PICK lit \in {Off, [ON |-> TRUE, PRESSED |-> FALSE]} :
        device = [shows |-> [x \in Leds \X (1 .. Modes) |-> lit], selected |-> << >>]
  BY DEF Init
<1>2. lit \in Colours
  <2>1. lit = Off \/ lit = [ON |-> TRUE, PRESSED |-> FALSE]
    BY <1>1
  <2>2. \A on \in BOOLEAN : [ON |-> on, PRESSED |-> FALSE] \in Colours
    BY DEF Colours
  <2> QED
    BY <2>1, <2>2 DEF Off
<1>3. device \in Devices
  BY <1>1, <1>2 DEF Devices, Places
<1>4. BufferInv
  BY <1>3, DicerAssumption DEF Init, BufferInv
<1>5. \A x \in Leds : ~led[x].SYNCED
  BY DEF Init
<1> QED
  BY <1>4, <1>5 DEF SyncedIsShown

(* An LED whose flags change is not synced any more.                       *)
LEMMA ChangeUnsyncs ==
  ASSUME NEW l \in Led, NEW on \in BOOLEAN, NEW pressed \in BOOLEAN
  PROVE  /\ Held(l, pressed).SYNCED => l.SYNCED /\ Shows(Held(l, pressed)) = Shows(l)
         /\ Lit(l, on).SYNCED => l.SYNCED /\ Shows(Lit(l, on)) = Shows(l)
  BY DEF Held, Lit, With, Shows, Led

LEMMA EventTold ==
  ASSUME IInv, BufferInv, NEW d \in Decks, NEW b \in Buttons, Event(d, b)
  PROVE  BufferInv' /\ (SyncedIsShown => SyncedIsShown')
<1>0. <<d, b>> \in Leds /\ led \in [Leds -> Led] /\ UNCHANGED <<obuf, device>>
  BY DicerAssumption DEF IInv, LedsTypeOK, Leds, Event
<1> DEFINE l == led[<<d, b>>]
<1>1. l \in Led
  BY <1>0
<1>2. PICK new : /\ led' = [led EXCEPT ![<<d, b>>] = new]
                 /\ new.SYNCED => l.SYNCED /\ Shows(new) = Shows(l)
  <2>1. CASE ClearCue(d, b) \/ PressCue(d, b) \/ PressLoop(d, b)
    <3>1. PICK on \in BOOLEAN : LightsUp(<<d, b>>, on, TRUE)
      BY <2>1 DEF ClearCue, PressCue, PressLoop
    <3>2. led' = [led EXCEPT ![<<d, b>>] = Lit(Held(l, TRUE), on)]
      BY <3>1 DEF LightsUp
    <3>3. Held(l, TRUE) \in Led
      BY <1>1, FlagsChange
    <3>4. Lit(Held(l, TRUE), on).SYNCED => l.SYNCED /\ Shows(Lit(Held(l, TRUE), on)) = Shows(l)
      BY <1>1, <3>3, ChangeUnsyncs
    <3> QED
      BY <3>2, <3>4
  <2>2. CASE ReleaseLoop(d, b) \/ OtherEvent(d, b)
    <3>1. PICK on \in BOOLEAN : led' = [led EXCEPT ![<<d, b>>] = Held(l, on)]
      BY <2>2 DEF ReleaseLoop, OtherEvent
    <3>2. Held(l, on).SYNCED => l.SYNCED /\ Shows(Held(l, on)) = Shows(l)
      BY <1>1, ChangeUnsyncs
    <3> QED
      BY <3>1, <3>2
  <2> QED
    BY <2>1, <2>2 DEF Event
<1>3. \A x \in Leds : led'[x].SYNCED => led[x].SYNCED /\ Shows(led'[x]) = Shows(led[x])
  BY <1>0, <1>2
<1> QED
  BY <1>0, <1>3 DEF BufferInv, SyncedIsShown, Written

LEMMA NextTold ==
  ASSUME IInv, BufferInv, [Next]_vars
  PROVE  BufferInv' /\ (~ShortWrites /\ SyncedIsShown => SyncedIsShown')
<1>1. CASE Press
  BY <1>1, EventTold DEF Press
<1>2. CASE Sync
  BY <1>2, SyncTold, ToldIs DEF Sync, IInv, LedsTypeOK
<1>3. CASE Clear
  <2> DEFINE out == [x \in Leds |-> Lit(led[x], FALSE)]
  <2>0. led \in [Leds -> Led]
    BY DEF IInv, LedsTypeOK
  <2>1. out \in [Leds -> Led]
    BY <2>0, FlagsChange
  <2>2. \A x \in Leds : out[x].SYNCED => led[x].SYNCED /\ Shows(out[x]) = Shows(led[x])
    BY <2>0, ChangeUnsyncs
  <2>3. SyncAllLeds(out)
    BY <1>3 DEF Clear
  <2> HIDE DEF out
  <2>4. SyncedIsShown => Told(out)
    BY <2>2, ToldIs DEF Told
  <2> QED
    BY <2>1, <2>3, <2>4, SyncTold
<1>4. CASE ReadError \/ Elsewhere \/ UNCHANGED vars
  <2>1. UNCHANGED <<led, obuf, device>>
    BY <1>4 DEF ReadError, Elsewhere, vars
  <2> QED
    BY <2>1 DEF BufferInv, SyncedIsShown, Written
<1> QED
  BY <1>1, <1>2, <1>3, <1>4 DEF Next

LEMMA BufferHolds == Spec => []BufferInv
<1>1. Init => BufferInv
  BY InitTold
<1>2. IInv /\ BufferInv /\ [Next]_vars => BufferInv'
  BY NextTold
<1> QED
  BY <1>1, <1>2, Invariance, PTL DEF Spec

(* Whatever the port takes, the LEDs that are added to what waits in obuf  *)
(* never overrun it (led_cmd counts what is left of it).                   *)
THEOREM NeverOverrun == Spec => []TypeOK
<1>1. IInv /\ BufferInv => TypeOK
  BY DEF IInv, BufferInv, TypeOK
<1> QED
  BY <1>1, Invariance, BufferHolds, PTL

(* Unless the port takes less than half of what it is given, the hardware  *)
(* shows each LED that is marked as synced, once obuf is written: whatever *)
(* is pressed meanwhile, and however full the buffer.                      *)
THEOREM SyncedAreShown == ~ShortWrites => (Spec => []SyncedIsShown)
<1> SUFFICES ASSUME ~ShortWrites PROVE Spec => []SyncedIsShown
  OBVIOUS
<1>1. Init => SyncedIsShown
  BY InitTold
<1>2. IInv /\ BufferInv /\ SyncedIsShown /\ [Next]_vars => SyncedIsShown'
  BY NextTold
<1> QED
  BY <1>1, <1>2, Invariance, BufferHolds, PTL DEF Spec
=============================================================================
