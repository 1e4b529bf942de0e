------------------------ MODULE AgentServicesProofs --------------------------
(* What is proved of the services around the agent: the Slack bot, the      *)
(* conversation memory and the checkpoints of a run.                        *)
EXTENDS SlackBot, ConversationMemory, Checkpoints, FiniteSetTheorems, SequenceTheorems, TLAPS

(***************************************************************************)
(* The Slack bot answers each question once, as far as it remembers and    *)
(* can reply, for any number of messages, deliveries and restarts and any  *)
(* time to live and size of its memory.                                    *)
(***************************************************************************)

Active == {"begin", "ask", "asking"}
Stages == Active \cup {"none", "done"}
Deliveries == 1..MaxDeliveries
Marks == [key : Posts, at : 0..MaxClock, crashes : 0..MaxCrashes]

\* What SlackTypeOK says of every variable but _SEEN_EVENTS.
ShapeOK ==
    /\ postKind \in [Posts -> Kinds]
    /\ delivered \in [Posts -> 0..MaxDeliveries]
    /\ now \in 0..MaxClock /\ crashes \in 0..MaxCrashes
    /\ handler \in [Posts -> [Deliveries -> Stages]]
    /\ runs \in [Posts -> Nat]
    /\ answered \subseteq Posts /\ postFailed \subseteq Posts /\ died \subseteq Posts
    /\ marks \in Seq(Marks)
    /\ \A i \in 1..Len(marks) : marks[i].crashes <= crashes

\* An entry is there for one event taken up since the last restart.
Entry(e) ==
    /\ e.nth \in 1..Len(marks)
    /\ e = [key |-> marks[e.nth].key, at |-> marks[e.nth].at, nth |-> e.nth]

EntriesOK == /\ \A e \in seen : Entry(e)
             /\ IsFiniteSet(seen) /\ Cardinality(seen) <= SEEN_MAX

\* An event that was taken up is remembered, or there is a reason.
Forgotten(i) ==
    \/ marks[i].crashes < crashes
    \/ now - marks[i].at > SEEN_TTL
    \/ Len(marks) - i >= SEEN_MAX

Remembers == \A i \in 1..Len(marks) : (\E e \in seen : e.nth = i) \/ Forgotten(i)

MemoryInv == ShapeOK /\ EntriesOK /\ Remembers /\ OneRunPerMessage

-----------------------------------------------------------------------------
(* What _seen_event keeps.                                                 *)

\* Entries are told apart by their place in the order.
InOrder(S) == /\ \A e \in S : e.nth \in Nat
              /\ \A e, f \in S : e.nth = f.nth => e = f

\* What is known of the events taken up so far.
LEMMA MarkTypes ==
    ASSUME ShapeOK
    PROVE  /\ Len(marks) \in Nat /\ now \in Nat /\ crashes \in Nat
           /\ \A i \in 1..Len(marks) :
                 /\ marks[i].key \in Posts
                 /\ marks[i].at \in 0..MaxClock
                 /\ marks[i].crashes \in 0..crashes
<1>1. Len(marks) \in Nat /\ \A i \in 1..Len(marks) : marks[i] \in Marks
  BY DEF ShapeOK
<1>2. now \in Nat /\ crashes \in Nat
  BY SlackAssumption DEF ShapeOK
<1>3. \A i \in 1..Len(marks) : marks[i].crashes <= crashes
  BY DEF ShapeOK
<1>4. \A x \in Marks : x.key \in Posts /\ x.at \in 0..MaxClock /\ x.crashes \in 0..MaxCrashes
  BY DEF Marks
<1> QED
  BY <1>1, <1>2, <1>3, <1>4, SlackAssumption

LEMMA LaterShrinks ==
    ASSUME NEW S, IsFiniteSet(S), InOrder(S),
           NEW e \in S, NEW f \in S, e.nth < f.nth
    PROVE  Cardinality(Later(f, S)) < Cardinality(Later(e, S))
<1>1. Later(f, S) \subseteq Later(e, S) /\ f \in Later(e, S) /\ f \notin Later(f, S)
  BY DEF Later, InOrder
<1>2. IsFiniteSet(Later(e, S))
  BY FS_Subset DEF Later
<1>3. /\ Cardinality(Later(f, S)) <= Cardinality(Later(e, S))
      /\ Cardinality(Later(f, S)) # Cardinality(Later(e, S))
  BY <1>1, <1>2, FS_Subset
<1>4. Cardinality(Later(f, S)) \in Nat /\ Cardinality(Later(e, S)) \in Nat
  BY <1>1, <1>2, FS_Subset, FS_CardinalityType
<1> QED
  BY <1>3, <1>4

LEMMA NewestBounded ==
    ASSUME NEW S, IsFiniteSet(S), InOrder(S), SEEN_MAX \in Nat
    PROVE  IsFiniteSet(Newest(S)) /\ Cardinality(Newest(S)) <= SEEN_MAX
<1> DEFINE after == [e \in Newest(S) |-> Cardinality(Later(e, S))]
           places == 0..(SEEN_MAX - 1)
<1>1. \A e \in S : Cardinality(Later(e, S)) \in Nat
  BY FS_Subset, FS_CardinalityType DEF Later
<1>2. after \in [Newest(S) -> places]
  BY <1>1 DEF Newest
<1>3. \A e, f \in Newest(S) : after[e] = after[f] => e = f
  <2> SUFFICES ASSUME NEW e \in Newest(S), NEW f \in Newest(S), after[e] = after[f] PROVE e = f
    OBVIOUS
  <2>1. e \in S /\ f \in S /\ e.nth \in Nat /\ f.nth \in Nat
    BY DEF Newest, InOrder
  <2>2. Cardinality(Later(e, S)) = Cardinality(Later(f, S))
    OBVIOUS
  <2>3. ~(e.nth < f.nth) /\ ~(f.nth < e.nth)
    BY <1>1, <2>1, <2>2, LaterShrinks
  <2> QED
    BY <2>1, <2>3 DEF InOrder
<1>4. IsFiniteSet(places) /\ Cardinality(places) = SEEN_MAX
  BY FS_Interval
<1>5. after \in Injection(Newest(S), places)
  BY <1>2, <1>3 DEF Injection, IsInjective
<1>6. IsFiniteSet(Newest(S)) /\ Cardinality(Newest(S)) <= Cardinality(places)
  BY <1>4, <1>5, FS_Injection
<1> QED
  BY <1>4, <1>6

LEMMA EvictedAreOld ==
    ASSUME NEW S, IsFiniteSet(S), InOrder(S),
           SEEN_MAX \in Nat, NEW n \in Nat, \A f \in S : f.nth <= n,
           NEW e \in S, e \notin Newest(S)
    PROVE  n - e.nth >= SEEN_MAX
<1> DEFINE places == (e.nth + 1)..n
           nth == [f \in Later(e, S) |-> f.nth]
<1>1. e.nth \in Nat /\ e.nth <= n
  BY DEF InOrder
<1>2. IsFiniteSet(places) /\ Cardinality(places) = n - e.nth
  <2>1. e.nth + 1 \in Int /\ n \in Int
    BY <1>1
  <2>2. /\ IsFiniteSet(places)
        /\ Cardinality(places) = IF e.nth + 1 > n THEN 0 ELSE n - (e.nth + 1) + 1
    BY <2>1, FS_Interval
  <2> QED
    BY <1>1, <2>2
<1>3. nth \in Injection(Later(e, S), places)
  BY <1>1 DEF Later, InOrder, Injection, IsInjective
<1>4. Cardinality(Later(e, S)) <= n - e.nth /\ Cardinality(Later(e, S)) \in Nat
  BY <1>2, <1>3, FS_Injection, FS_CardinalityType
<1>5. Cardinality(Later(e, S)) >= SEEN_MAX
  BY <1>4 DEF Newest
<1> QED
  BY <1>1, <1>4, <1>5

-----------------------------------------------------------------------------
(* One run per message.                                                    *)

LEMMA InitMemory == SlackInit => MemoryInv
<1> SUFFICES ASSUME SlackInit PROVE MemoryInv
  OBVIOUS
<1>1. ShapeOK
  BY SlackAssumption DEF SlackInit, ShapeOK, Stages, Deliveries
<1>2. EntriesOK
  BY SlackAssumption, FS_EmptySet DEF SlackInit, EntriesOK
<1> QED
  BY <1>1, <1>2 DEF SlackInit, MemoryInv, Remembers, OneRunPerMessage

\* A new event is remembered, and one is pushed out only by SEEN_MAX later ones.
LEMMA MarkMemory ==
    ASSUME MemoryInv, ShapeOK', NEW m \in Posts, Mark(m), UNCHANGED <<now, crashes>>
    PROVE  MemoryInv'
<1> DEFINE S == Recent(seen)
           mark == [key |-> m, at |-> now, crashes |-> crashes]
<1>n. PICK new : new = [key |-> m, at |-> now, nth |-> Len(marks) + 1]
  OBVIOUS
<1> USE SlackAssumption DEF MemoryInv
<1>0. /\ Len(marks) \in Nat /\ now \in Nat /\ crashes \in Nat
      /\ \A i \in 1..Len(marks) : marks[i].at \in Nat /\ marks[i].crashes \in 0..crashes
  BY MarkTypes
<1>1. S \subseteq seen /\ IsFiniteSet(S) /\ Cardinality(S) <= SEEN_MAX
  <2>1. S \subseteq seen /\ IsFiniteSet(seen)
    BY DEF Recent, EntriesOK
  <2> QED
    BY <2>1, FS_Subset, FS_CardinalityType DEF EntriesOK
<1>2. \A i \in 1..Len(marks) : (\E e \in S : e.nth = i) \/ Forgotten(i)
  BY <1>0 DEF Remembers, EntriesOK, Entry, Recent, Forgotten
<1>3. CASE _seen_event(m)
  <2>1. seen' = S /\ marks' = marks
    BY <1>3 DEF Mark
  <2>2. EntriesOK'
    BY <1>1, <2>1 DEF EntriesOK, Entry
  <2>3. Remembers'
    BY <1>2, <2>1 DEF Remembers, Forgotten
  <2> QED
    BY <2>1, <2>2, <2>3 DEF OneRunPerMessage
<1>4. CASE ~_seen_event(m)
  <2>1. seen' = Newest(S \cup {new}) /\ marks' = Append(marks, mark)
    BY <1>n, <1>4 DEF Mark
  <2>2. /\ Len(marks') = Len(marks) + 1 /\ marks'[Len(marks) + 1] = mark
        /\ \A i \in 1..Len(marks) : marks'[i] = marks[i]
    <3>1. marks \in Seq(Marks)
      BY DEF ShapeOK
    <3> QED
      BY <2>1, <3>1
  <2>3. /\ \A e \in S : Entry(e) /\ Entry(e)'
        /\ Entry(new)'
    <3>1. \A e \in S : Entry(e)
      BY <1>1 DEF EntriesOK
    <3>2. \A e \in S : Entry(e)'
      <4> SUFFICES ASSUME NEW e \in S PROVE Entry(e)'
        OBVIOUS
      <4>1. e.nth \in 1..Len(marks) /\ marks'[e.nth] = marks[e.nth]
        BY <2>2, <3>1 DEF Entry
      <4>2. e.nth \in 1..Len(marks')
        BY <1>0, <2>2, <4>1
      <4> QED
        BY <3>1, <4>1, <4>2 DEF Entry
    <3>3. Entry(new)'
      <4>1. new.nth = Len(marks) + 1 /\ new.nth \in 1..Len(marks')
        BY <1>n, <1>0, <2>2
      <4> QED
        BY <1>n, <2>2, <4>1 DEF Entry
    <3> QED
      BY <3>1, <3>2, <3>3
  <2>4. /\ IsFiniteSet(S \cup {new})
        /\ \A e \in S \cup {new} : e.nth \in 1..(Len(marks) + 1)
    <3>1. IsFiniteSet(S \cup {new})
      BY <1>1, FS_AddElement
    <3>2. \A e \in S \cup {new} : e.nth \in 1..Len(marks')
      BY <2>3 DEF Entry
    <3> QED
      BY <2>2, <3>1, <3>2
  <2>5. InOrder(S \cup {new})
    <3>1. \A e \in S \cup {new} :
             e = [key |-> marks'[e.nth].key, at |-> marks'[e.nth].at, nth |-> e.nth]
      BY <2>3 DEF Entry
    <3>2. \A e, f \in S \cup {new} : e.nth = f.nth => e = f
      BY <3>1
    <3> QED
      BY <1>0, <2>4, <3>2 DEF InOrder
  <2>6. EntriesOK'
    <3>1. IsFiniteSet(seen') /\ Cardinality(seen') <= SEEN_MAX
      BY <2>1, <2>4, <2>5, NewestBounded
    <3>2. seen' \subseteq S \cup {new}
      BY <2>1 DEF Newest
    <3>3. \A e \in seen' : Entry(e)'
      BY <2>3, <3>2
    <3> QED
      BY <3>1, <3>3 DEF EntriesOK
  <2>7. \A e \in S \cup {new} : e \in seen' \/ Len(marks') - e.nth >= SEEN_MAX
    <3>1. Len(marks) + 1 \in Nat /\ \A e \in S \cup {new} : e.nth <= Len(marks) + 1
      BY <1>0, <2>4
    <3> QED
      BY <2>1, <2>2, <2>4, <2>5, <3>1, EvictedAreOld
  <2>8. Remembers'
    <3> SUFFICES ASSUME NEW i \in 1..Len(marks')
                 PROVE  (\E e \in seen' : e.nth = i) \/ Forgotten(i)'
      BY DEF Remembers
    <3>1. CASE i = Len(marks) + 1
      <4>1. new.nth = i /\ Len(marks') - i = 0
        BY <1>n, <1>0, <2>2, <3>1
      <4>2. new \in seen'
        BY <2>7, <4>1
      <4> QED
        BY <4>1, <4>2
    <3>2. CASE i \in 1..Len(marks) /\ \E e \in S : e.nth = i
      BY <2>7, <3>2 DEF Forgotten
    <3>3. CASE i \in 1..Len(marks) /\ Forgotten(i)
      BY <1>0, <2>2, <3>3 DEF Forgotten
    <3> QED
      BY <1>0, <1>2, <2>2, <3>1, <3>2, <3>3
  <2>9. OneRunPerMessage'
    <3> SUFFICES ASSUME NEW i \in 1..Len(marks'), NEW j \in 1..Len(marks'),
                        i < j, marks'[i].key = marks'[j].key
                 PROVE  \/ marks'[j].crashes > marks'[i].crashes
                        \/ marks'[j].at - marks'[i].at > SEEN_TTL
                        \/ j - i > SEEN_MAX
      BY DEF OneRunPerMessage
    <3>1. CASE j \in 1..Len(marks)
      <4>1. i \in 1..Len(marks) /\ marks'[i] = marks[i] /\ marks'[j] = marks[j]
        BY <1>0, <2>2, <3>1
      <4> QED
        BY <3>1, <4>1 DEF OneRunPerMessage
    <3>2. CASE j = Len(marks) + 1
      <4>1. i \in 1..Len(marks) /\ marks[i].key = m
        BY <1>0, <2>2, <3>2
      <4>2. ~\E e \in S : e.nth = i
        BY <1>4, <2>3, <4>1 DEF _seen_event, Entry
      <4>3. Forgotten(i)
        BY <1>2, <4>1, <4>2
      <4> QED
        BY <1>0, <2>2, <3>2, <4>1, <4>3 DEF Forgotten
    <3> QED
      BY <1>0, <2>2, <3>1, <3>2
  <2> QED
    BY <2>6, <2>8, <2>9
<1> QED
  BY <1>3, <1>4

LEMMA StepShape == ShapeOK /\ [SlackNext]_slackVars => ShapeOK'
<1> SUFFICES ASSUME ShapeOK, [SlackNext]_slackVars PROVE ShapeOK'
  OBVIOUS
<1> USE SlackAssumption DEF ShapeOK, Stages, Active, Deliveries
<1>1. CASE UNCHANGED slackVars
  BY <1>1 DEF slackVars
<1>2. ASSUME NEW m \in Posts, OnEvent(m) PROVE ShapeOK'
  <2> DEFINE mark == [key |-> m, at |-> now, crashes |-> crashes]
  <2>1. UNCHANGED <<postKind, now, crashes, runs, answered, postFailed, died>>
    BY <1>2 DEF OnEvent
  <2>2. marks' = marks \/ marks' = Append(marks, mark)
    BY <1>2 DEF OnEvent, Mark
  <2>3. mark \in Marks /\ mark.crashes <= crashes /\ crashes \in Nat
    BY DEF Marks
  <2>4. marks' \in Seq(Marks) /\ \A i \in 1..Len(marks') : marks'[i].crashes <= crashes
    <3>1. CASE marks' = marks
      BY <2>1, <3>1
    <3>2. CASE marks' = Append(marks, mark)
      <4>1. /\ marks' \in Seq(Marks) /\ Len(marks') = Len(marks) + 1 /\ Len(marks) \in Nat
            /\ marks'[Len(marks) + 1] = mark
            /\ \A i \in 1..Len(marks) : marks'[i] = marks[i]
        BY <2>3, <3>2
      <4>2. \A i \in 1..Len(marks') : i \in 1..Len(marks) \/ i = Len(marks) + 1
        BY <4>1
      <4>3. \A i \in 1..Len(marks) : marks[i].crashes <= crashes
        OBVIOUS
      <4> QED
        BY <2>3, <4>1, <4>2, <4>3, Zenon
    <3> QED
      BY <2>2, <3>1, <3>2
  <2>5. /\ delivered[m] \in 0..MaxDeliveries /\ delivered[m] < MaxDeliveries
        /\ delivered' = [delivered EXCEPT ![m] = delivered[m] + 1]
        /\ \/ handler' = handler
           \/ handler' = [handler EXCEPT ![m][delivered[m] + 1] = "begin"]
    BY <1>2 DEF OnEvent
  <2>6. delivered' \in [Posts -> 0..MaxDeliveries] /\ handler' \in [Posts -> [Deliveries -> Stages]]
    <3>1. delivered' \in [Posts -> 0..MaxDeliveries]
      BY <2>5
    <3>2. [handler[m] EXCEPT ![delivered[m] + 1] = "begin"] \in [Deliveries -> Stages]
      BY <2>5
    <3> QED
      BY <2>5, <3>1, <3>2
  <2> QED
    BY <2>1, <2>4, <2>6
<1>3. ASSUME NEW m \in Posts, NEW i \in Deliveries, BeginHandling(m, i) \/ AskReturns(m, i)
      PROVE  ShapeOK'
  <2>1. PICK stage \in Stages : handler' = [handler EXCEPT ![m][i] = stage]
    BY <1>3 DEF BeginHandling, AskReturns, Reply
  <2> QED
    BY <1>3, <2>1 DEF BeginHandling, AskReturns, Reply
<1>4. ASSUME NEW m \in Posts, NEW i \in Deliveries, Ask(m, i) PROVE ShapeOK'
  BY <1>4 DEF Ask
<1>5. CASE SlackTick
  BY <1>5 DEF SlackTick
<1>6. CASE BotRestarts
  <2>1. /\ crashes' = crashes + 1 /\ crashes' \in 0..MaxCrashes
        /\ UNCHANGED <<postKind, delivered, now, runs, answered, postFailed, marks>>
        /\ died' \subseteq Posts
        /\ handler' \in [Posts -> [Deliveries -> Stages]]
    BY <1>6 DEF BotRestarts
  <2>2. \A i \in 1..Len(marks) : marks[i].crashes <= crashes + 1
    BY MarkTypes
  <2> QED
    BY <2>1, <2>2
<1> QED
  BY <1>1, <1>2, <1>3, <1>4, <1>5, <1>6 DEF SlackNext

LEMMA StepMemory == MemoryInv /\ [SlackNext]_slackVars => MemoryInv'
<1> SUFFICES ASSUME MemoryInv, [SlackNext]_slackVars PROVE MemoryInv'
  OBVIOUS
<1>s. ShapeOK'
  BY StepShape DEF MemoryInv
<1>q. ASSUME UNCHANGED <<seen, marks, now, crashes>> PROVE MemoryInv'
  BY <1>s, <1>q DEF MemoryInv, EntriesOK, Entry, Remembers, Forgotten, OneRunPerMessage
<1>1. CASE UNCHANGED slackVars
  BY <1>q, <1>1 DEF slackVars
<1>2. ASSUME NEW m \in Posts, OnEvent(m) PROVE MemoryInv'
  BY <1>s, <1>q, <1>2, MarkMemory DEF OnEvent
<1>3. ASSUME NEW m \in Posts, NEW i \in Deliveries,
             BeginHandling(m, i) \/ Ask(m, i) \/ AskReturns(m, i)
      PROVE  MemoryInv'
  BY <1>q, <1>3 DEF BeginHandling, Ask, AskReturns
<1>4. CASE SlackTick
  <2>1. /\ now' = now + 1 /\ UNCHANGED <<seen, marks, crashes>>
        /\ now \in Nat /\ Len(marks) \in Nat
        /\ \A i \in 1..Len(marks) : marks[i].at \in Nat
    BY <1>4, MarkTypes, SlackAssumption DEF SlackTick, MemoryInv
  <2>2. Remembers'
    BY <2>1, SlackAssumption DEF MemoryInv, Remembers, Forgotten
  <2> QED
    BY <1>s, <2>1, <2>2 DEF MemoryInv, EntriesOK, Entry, OneRunPerMessage
<1>5. CASE BotRestarts
  <2>1. /\ seen' = {} /\ crashes' = crashes + 1 /\ UNCHANGED <<marks, now>>
        /\ crashes \in Nat /\ \A i \in 1..Len(marks) : marks[i].crashes \in Nat
    BY <1>5, MarkTypes DEF BotRestarts, MemoryInv
  <2>2. \A i \in 1..Len(marks) : marks[i].crashes <= crashes
    BY DEF MemoryInv, ShapeOK
  <2>3. Remembers'
    BY <2>1, <2>2 DEF MemoryInv, Remembers, Forgotten
  <2> QED
    BY <1>s, <2>1, <2>3, FS_EmptySet, SlackAssumption DEF MemoryInv, EntriesOK, OneRunPerMessage
<1> QED
  BY <1>1, <1>2, <1>3, <1>4, <1>5 DEF SlackNext, Deliveries

-----------------------------------------------------------------------------
(* Runs and answers.                                                       *)

Started(m) == {i \in Deliveries : handler[m][i] # "none"}
Past(m) == {i \in Deliveries : handler[m][i] \in {"asking", "done"}}
AsksTheAgent(m) == postKind[m] \in {"mention", "dm"}

\* Every thread was started for an event that was taken up, and asks once.
CountInv == \A m \in Posts :
    /\ \A i \in Deliveries : i > delivered[m] => handler[m][i] = "none"
    /\ Cardinality(Started(m)) <= Cardinality(TakenUp(m))
    /\ runs[m] <= Cardinality(Past(m))
    /\ ~AsksTheAgent(m) =>
         runs[m] = 0 /\ \A i \in Deliveries : handler[m][i] \notin {"ask", "asking"}
    /\ ~IsQuestion(m) => \A i \in Deliveries : handler[m][i] = "none"

BotInv == MemoryInv /\ CountInv /\ SilentOnlyByFailure

\* The sets that are counted.
LEMMA Finite ==
    ASSUME ShapeOK, NEW m \in Posts
    PROVE  /\ IsFiniteSet(Started(m)) /\ Cardinality(Started(m)) \in 0..MaxDeliveries
           /\ IsFiniteSet(Past(m)) /\ Cardinality(Past(m)) \in 0..MaxDeliveries
           /\ Cardinality(Past(m)) <= Cardinality(Started(m))
           /\ IsFiniteSet(TakenUp(m)) /\ Cardinality(TakenUp(m)) \in Nat
<1>1. IsFiniteSet(Deliveries) /\ Cardinality(Deliveries) = MaxDeliveries
  BY SlackAssumption, FS_Interval DEF Deliveries
<1>2. Started(m) \subseteq Deliveries /\ Past(m) \subseteq Started(m)
  BY DEF Started, Past
<1>3. IsFiniteSet(Started(m)) /\ Cardinality(Started(m)) <= MaxDeliveries
  BY <1>1, <1>2, FS_Subset
<1>4. IsFiniteSet(Past(m)) /\ Cardinality(Past(m)) <= Cardinality(Started(m))
  BY <1>2, <1>3, FS_Subset
<1>5. IsFiniteSet(1..Len(marks))
  BY MarkTypes, FS_Interval
<1>6. IsFiniteSet(TakenUp(m))
  BY <1>5, FS_Subset DEF TakenUp
<1> QED
  BY <1>3, <1>4, <1>6, FS_CardinalityType, SlackAssumption

LEMMA OneMore ==
    ASSUME NEW S, NEW x, IsFiniteSet(S)
    PROVE  /\ Cardinality(S) \in Nat /\ Cardinality(S \cup {x}) \in Nat
           /\ Cardinality(S) <= Cardinality(S \cup {x})
           /\ x \notin S => Cardinality(S \cup {x}) = Cardinality(S) + 1
<1>1. Cardinality(S) \in Nat
  BY FS_CardinalityType
<1>2. Cardinality(S \cup {x}) = IF x \in S THEN Cardinality(S) ELSE Cardinality(S) + 1
  BY FS_AddElement
<1> QED
  BY <1>1, <1>2

LEMMA InitBot == SlackInit => BotInv
<1> SUFFICES ASSUME SlackInit PROVE BotInv
  OBVIOUS
<1>1. MemoryInv
  BY InitMemory
<1>2. \A m \in Posts : TakenUp(m) = {} /\ Started(m) = {} /\ Past(m) = {}
  BY DEF SlackInit, TakenUp, Started, Past, Deliveries
<1>3. CountInv
  <2>1. \A m \in Posts : /\ Cardinality(Started(m)) = 0 /\ Cardinality(Past(m)) = 0
                          /\ Cardinality(TakenUp(m)) = 0
    BY <1>2, FS_EmptySet
  <2>2. \A m \in Posts : runs[m] = 0 /\ \A i \in Deliveries : handler[m][i] = "none"
    BY DEF SlackInit, Deliveries
  <2> QED
    BY <2>1, <2>2 DEF CountInv
<1> QED
  BY <1>1, <1>2, <1>3 DEF BotInv, SilentOnlyByFailure

\* What an event does to the threads and to the history of its message.
LEMMA EventTaken ==
    ASSUME ShapeOK, CountInv, NEW m \in Posts, OnEvent(m)
    PROVE  \/ UNCHANGED <<handler, marks>>
           \/ LET i == delivered[m] + 1 IN
              /\ IsQuestion(m)
              /\ i \in Deliveries /\ handler[m][i] = "none"
              /\ handler' = [handler EXCEPT ![m][i] = "begin"]
              /\ TakenUp(m)' = TakenUp(m) \cup {Len(marks) + 1}
              /\ Len(marks) + 1 \notin TakenUp(m)
              /\ \A q \in Posts \ {m} : TakenUp(q)' = TakenUp(q)
<1> USE SlackAssumption
<1> DEFINE mark == [key |-> m, at |-> now, crashes |-> crashes]
<1>1. CASE UNCHANGED <<handler, marks>>
  BY <1>1
<1>2. CASE ~UNCHANGED <<handler, marks>>
  <2>1. /\ marks' = Append(marks, mark)
        /\ handler' = [handler EXCEPT ![m][delivered[m] + 1] = "begin"]
        /\ delivered[m] < MaxDeliveries /\ IsQuestion(m)
    BY <1>2 DEF OnEvent, Mark
  <2>2. delivered[m] \in 0..MaxDeliveries
    BY DEF ShapeOK
  <2>3. delivered[m] + 1 \in Deliveries /\ handler[m][delivered[m] + 1] = "none"
    BY <2>1, <2>2 DEF Deliveries, CountInv
  <2>4. /\ Len(marks') = Len(marks) + 1 /\ Len(marks) \in Nat
        /\ marks'[Len(marks) + 1] = mark
        /\ \A i \in 1..Len(marks) : marks'[i] = marks[i]
    BY <2>1 DEF ShapeOK
  <2>5. \A i : i \in 1..Len(marks') <=> i \in 1..Len(marks) \/ i = Len(marks) + 1
    BY <2>4
  <2>6. TakenUp(m)' = TakenUp(m) \cup {Len(marks) + 1}
    BY <2>4, <2>5 DEF TakenUp
  <2>7. \A q \in Posts \ {m} : TakenUp(q)' = TakenUp(q)
    BY <2>4, <2>5 DEF TakenUp
  <2>8. Len(marks) + 1 \notin TakenUp(m)
    BY <2>4 DEF TakenUp
  <2> QED
    BY <2>1, <2>3, <2>6, <2>7, <2>8
<1> QED
  BY <1>1, <1>2

\* A thread that goes on at one of its own stages.
LEMMA GoesOn ==
    ASSUME ShapeOK, CountInv, NEW m \in Posts, NEW i \in Deliveries,
           handler[m][i] \in Active, NEW stage \in Active \cup {"done"},
           handler[m][i] = "asking" => stage = "done",
           handler' = [handler EXCEPT ![m][i] = stage],
           UNCHANGED <<postKind, delivered, marks>>
    PROVE  /\ \A q \in Posts : Started(q)' = Started(q) /\ TakenUp(q)' = TakenUp(q)
           /\ \A q \in Posts : Past(q)' = Past(q) \/ Past(q)' = Past(q) \cup {i}
           /\ \A q \in Posts \ {m} : handler'[q] = handler[q]
           /\ \A q \in Posts : \A k \in Deliveries :
                k > delivered[q] => handler'[q][k] = "none"
<1>1. /\ handler'[m] = [handler[m] EXCEPT ![i] = stage]
      /\ \A q \in Posts \ {m} : handler'[q] = handler[q]
  BY DEF ShapeOK
<1>2. /\ handler'[m][i] = stage
      /\ \A k \in Deliveries \ {i} : handler'[m][k] = handler[m][k]
  BY <1>1 DEF ShapeOK
<1>3. \A q \in Posts : Started(q)' = Started(q)
  BY <1>1, <1>2 DEF Started, Active
<1>4. \A q \in Posts : TakenUp(q)' = TakenUp(q)
  BY DEF TakenUp
<1>5. \A q \in Posts : Past(q)' = Past(q) \/ Past(q)' = Past(q) \cup {i}
  BY <1>1, <1>2 DEF Past, Active
<1>6. \A q \in Posts : \A k \in Deliveries : k > delivered[q] => handler'[q][k] = "none"
  BY <1>1, <1>2 DEF CountInv, Active
<1> QED
  BY <1>1, <1>3, <1>4, <1>5, <1>6

LEMMA StepCount ==
    ASSUME ShapeOK, CountInv, ShapeOK', [SlackNext]_slackVars
    PROVE  CountInv'
<1> USE SlackAssumption
<1>1. CASE UNCHANGED slackVars
  BY <1>1 DEF slackVars, CountInv, Started, Past, TakenUp, AsksTheAgent, IsQuestion
<1>2. ASSUME NEW m \in Posts, OnEvent(m) PROVE CountInv'
  <2>1. /\ delivered[m] \in Nat /\ delivered' = [delivered EXCEPT ![m] = delivered[m] + 1]
        /\ delivered \in [Posts -> 0..MaxDeliveries]
        /\ handler \in [Posts -> [Deliveries -> Stages]]
        /\ UNCHANGED <<runs, postKind>>
    BY <1>2 DEF OnEvent, ShapeOK
  <2>2. CASE UNCHANGED <<handler, marks>>
    <3>1. \A q \in Posts : \A i \in Deliveries : i > delivered'[q] => handler'[q][i] = "none"
      BY <2>1, <2>2 DEF CountInv, Deliveries
    <3> QED
      BY <2>1, <2>2, <3>1 DEF CountInv, Started, Past, TakenUp, AsksTheAgent, IsQuestion
  <2>3. CASE ~UNCHANGED <<handler, marks>>
    <3> DEFINE i == delivered[m] + 1
    <3>1. /\ i \in Deliveries /\ handler[m][i] = "none"
          /\ handler' = [handler EXCEPT ![m][i] = "begin"]
          /\ TakenUp(m)' = TakenUp(m) \cup {Len(marks) + 1}
          /\ Len(marks) + 1 \notin TakenUp(m)
          /\ \A q \in Posts \ {m} : TakenUp(q)' = TakenUp(q)
      BY <1>2, <2>3, EventTaken
    <3>2. /\ handler'[m][i] = "begin"
          /\ \A k \in Deliveries \ {i} : handler'[m][k] = handler[m][k]
          /\ \A q \in Posts \ {m} : handler'[q] = handler[q]
      BY <2>1, <3>1
    <3>3. /\ Started(m)' = Started(m) \cup {i} /\ i \notin Started(m)
          /\ \A q \in Posts \ {m} : Started(q)' = Started(q)
          /\ \A q \in Posts : Past(q)' = Past(q)
      BY <3>1, <3>2 DEF Started, Past
    <3>4. IsFiniteSet(Started(m)) /\ IsFiniteSet(TakenUp(m))
      BY Finite
    <3>5. /\ Cardinality(Started(m) \cup {i}) = Cardinality(Started(m)) + 1
          /\ Cardinality(TakenUp(m) \cup {Len(marks) + 1}) = Cardinality(TakenUp(m)) + 1
          /\ Cardinality(Started(m)) \in Nat /\ Cardinality(TakenUp(m)) \in Nat
      BY <3>1, <3>3, <3>4, OneMore
    <3>6. \A q \in Posts : Cardinality(Started(q)') <= Cardinality(TakenUp(q)')
      <4>1. Cardinality(Started(m)') <= Cardinality(TakenUp(m)')
        <5>1. Cardinality(Started(m)) <= Cardinality(TakenUp(m))
          BY DEF CountInv
        <5> QED
          BY <3>1, <3>3, <3>5, <5>1
      <4>2. ASSUME NEW q \in Posts \ {m}
            PROVE  Cardinality(Started(q)') <= Cardinality(TakenUp(q)')
        BY <3>1, <3>3 DEF CountInv
      <4> QED
        BY <4>1, <4>2
    <3>7. \A q \in Posts : \A k \in Deliveries : k > delivered'[q] => handler'[q][k] = "none"
      <4> SUFFICES ASSUME NEW q \in Posts, NEW k \in Deliveries, k > delivered'[q]
                   PROVE  handler'[q][k] = "none"
        OBVIOUS
      <4>1. CASE q = m
        <5>1. k > delivered[m] + 1
          BY <2>1, <4>1
        <5>2. k \in Nat /\ k # i /\ k > delivered[m]
          BY <2>1, <5>1 DEF Deliveries
        <5> QED
          BY <3>2, <4>1, <5>2 DEF CountInv
      <4>2. CASE q # m
        BY <2>1, <3>2, <4>2 DEF CountInv
      <4> QED
        BY <4>1, <4>2
    <3>8. \A q \in Posts : ~AsksTheAgent(q)' =>
             runs'[q] = 0 /\ \A k \in Deliveries : handler'[q][k] \notin {"ask", "asking"}
      BY <2>1, <3>2 DEF CountInv, AsksTheAgent, IsQuestion
    <3>9. \A q \in Posts : ~IsQuestion(q)' => \A k \in Deliveries : handler'[q][k] = "none"
      <4>1. IsQuestion(m)
        BY <1>2, <2>3, EventTaken
      <4> QED
        BY <2>1, <3>2, <4>1 DEF CountInv, IsQuestion
    <3>10. \A q \in Posts : runs'[q] <= Cardinality(Past(q)')
      BY <2>1, <3>3 DEF CountInv
    <3> QED
      BY <3>6, <3>7, <3>8, <3>9, <3>10 DEF CountInv
  <2> QED
    BY <2>2, <2>3
<1>3. ASSUME NEW m \in Posts, NEW i \in Deliveries, BeginHandling(m, i) \/ AskReturns(m, i)
      PROVE  CountInv'
  <2>1. PICK stage \in {"ask", "done"} :
          /\ handler' = [handler EXCEPT ![m][i] = stage]
          /\ handler[m][i] \in {"begin", "asking"}
          /\ stage = "ask" => handler[m][i] = "begin" /\ postKind[m] # "help"
          /\ UNCHANGED <<postKind, delivered, marks, runs>>
    BY <1>3 DEF BeginHandling, AskReturns, Reply
  <2>2. /\ \A q \in Posts : Started(q)' = Started(q) /\ TakenUp(q)' = TakenUp(q)
        /\ \A q \in Posts : Past(q)' = Past(q) \/ Past(q)' = Past(q) \cup {i}
        /\ \A q \in Posts \ {m} : handler'[q] = handler[q]
        /\ \A q \in Posts : \A k \in Deliveries : k > delivered[q] => handler'[q][k] = "none"
    BY <2>1, GoesOn DEF Active
  <2>3. \A q \in Posts : runs'[q] <= Cardinality(Past(q)')
    <3> SUFFICES ASSUME NEW q \in Posts PROVE runs'[q] <= Cardinality(Past(q)')
      OBVIOUS
    <3>1. IsFiniteSet(Past(q)) /\ runs[q] \in Nat /\ runs[q] <= Cardinality(Past(q))
      BY Finite DEF CountInv, ShapeOK
    <3>2. Cardinality(Past(q)) \in Nat /\ Cardinality(Past(q) \cup {i}) \in Nat
          /\ Cardinality(Past(q)) <= Cardinality(Past(q) \cup {i})
      BY <3>1, OneMore
    <3>3. runs'[q] = runs[q] /\ (Past(q)' = Past(q) \/ Past(q)' = Past(q) \cup {i})
      BY <2>1, <2>2
    <3>4. CASE Past(q)' = Past(q)
      BY <3>1, <3>3, <3>4
    <3>5. CASE Past(q)' = Past(q) \cup {i}
      BY <3>1, <3>2, <3>3, <3>5
    <3> QED
      BY <3>3, <3>4, <3>5
  <2>4. IsQuestion(m) /\ (stage = "ask" => AsksTheAgent(m))
    BY <2>1 DEF CountInv, IsQuestion, AsksTheAgent
  <2>5. /\ handler'[m][i] = stage
        /\ \A k \in Deliveries \ {i} : handler'[m][k] = handler[m][k]
    BY <2>1 DEF ShapeOK
  <2>6. \A q \in Posts : ~AsksTheAgent(q)' =>
           runs'[q] = 0 /\ \A k \in Deliveries : handler'[q][k] \notin {"ask", "asking"}
    <3>1. \A q \in Posts : AsksTheAgent(q)' <=> AsksTheAgent(q)
      BY <2>1 DEF AsksTheAgent
    <3>2. ~AsksTheAgent(m) => \A k \in Deliveries : handler'[m][k] \notin {"ask", "asking"}
      BY <2>4, <2>5 DEF CountInv
    <3> QED
      BY <2>1, <2>2, <3>1, <3>2 DEF CountInv
  <2>7. \A q \in Posts : ~IsQuestion(q)' => \A k \in Deliveries : handler'[q][k] = "none"
    BY <2>1, <2>2, <2>4 DEF CountInv, IsQuestion
  <2> QED
    BY <2>1, <2>2, <2>3, <2>6, <2>7 DEF CountInv
<1>4. ASSUME NEW m \in Posts, NEW i \in Deliveries, Ask(m, i) PROVE CountInv'
  <2>1. /\ handler[m][i] = "ask" /\ handler' = [handler EXCEPT ![m][i] = "asking"]
        /\ runs' = [runs EXCEPT ![m] = runs[m] + 1]
        /\ UNCHANGED <<postKind, delivered, marks>>
    BY <1>4 DEF Ask
  <2>2. /\ \A q \in Posts : Started(q)' = Started(q) /\ TakenUp(q)' = TakenUp(q)
        /\ \A q \in Posts \ {m} : handler'[q] = handler[q]
        /\ \A q \in Posts : \A k \in Deliveries : k > delivered[q] => handler'[q][k] = "none"
    BY <2>1, GoesOn DEF Active
  <2>3. /\ handler'[m][i] = "asking"
        /\ \A k \in Deliveries \ {i} : handler'[m][k] = handler[m][k]
    BY <2>1 DEF ShapeOK
  <2>4. Past(m)' = Past(m) \cup {i} /\ i \notin Past(m)
    BY <2>1, <2>3 DEF Past
  <2>5. \A q \in Posts \ {m} : Past(q)' = Past(q)
    BY <2>2 DEF Past
  <2>6. /\ runs'[m] = runs[m] + 1 /\ runs[m] \in Nat
        /\ \A q \in Posts \ {m} : runs'[q] = runs[q]
    BY <2>1 DEF ShapeOK
  <2>7. \A q \in Posts : runs'[q] <= Cardinality(Past(q)')
    <3>1. IsFiniteSet(Past(m)) /\ runs[m] <= Cardinality(Past(m))
      BY Finite DEF CountInv
    <3>2. /\ Cardinality(Past(m)) \in Nat
          /\ Cardinality(Past(m) \cup {i}) = Cardinality(Past(m)) + 1
      BY <2>4, <3>1, OneMore
    <3>3. runs'[m] <= Cardinality(Past(m)')
      BY <2>4, <2>6, <3>1, <3>2
    <3>4. ASSUME NEW q \in Posts \ {m} PROVE runs'[q] <= Cardinality(Past(q)')
      BY <2>5, <2>6 DEF CountInv
    <3> QED
      BY <3>3, <3>4
  <2>8. IsQuestion(m) /\ AsksTheAgent(m)
    BY <2>1 DEF CountInv
  <2>9. \A q \in Posts : ~AsksTheAgent(q)' =>
           runs'[q] = 0 /\ \A k \in Deliveries : handler'[q][k] \notin {"ask", "asking"}
    BY <2>1, <2>2, <2>6, <2>8 DEF CountInv, AsksTheAgent
  <2>10. \A q \in Posts : ~IsQuestion(q)' => \A k \in Deliveries : handler'[q][k] = "none"
    BY <2>1, <2>2, <2>8 DEF CountInv, IsQuestion
  <2> QED
    BY <2>1, <2>2, <2>7, <2>9, <2>10 DEF CountInv
<1>5. CASE SlackTick
  BY <1>5 DEF SlackTick, CountInv, Started, Past, TakenUp, AsksTheAgent, IsQuestion
<1>6. CASE BotRestarts
  <2>1. /\ UNCHANGED <<postKind, delivered, runs, marks>>
        /\ \A q \in Posts, k \in Deliveries :
             handler'[q][k] = IF handler[q][k] = "none" THEN "none" ELSE "done"
    BY <1>6 DEF BotRestarts, Deliveries
  <2>2. \A q \in Posts : Started(q)' = Started(q) /\ TakenUp(q)' = TakenUp(q)
    BY <2>1 DEF Started, TakenUp
  <2>3. \A q \in Posts : Past(q)' = Started(q)
    BY <2>1 DEF Started, Past
  <2>4. \A q \in Posts : runs'[q] <= Cardinality(Past(q)')
    <3>1. \A q \in Posts : /\ runs[q] \in Nat /\ Cardinality(Past(q)) \in Nat
                           /\ Cardinality(Started(q)) \in Nat
                           /\ Cardinality(Past(q)) <= Cardinality(Started(q))
      BY Finite DEF ShapeOK
    <3> QED
      BY <2>1, <2>3, <3>1 DEF CountInv
  <2> QED
    BY <2>1, <2>2, <2>4 DEF CountInv, AsksTheAgent, IsQuestion
<1> QED
  BY <1>1, <1>2, <1>3, <1>4, <1>5, <1>6 DEF SlackNext, Deliveries

LEMMA StepSilent ==
    ASSUME ShapeOK, CountInv, SilentOnlyByFailure, [SlackNext]_slackVars
    PROVE  SilentOnlyByFailure'
<1> DEFINE Working(m) == \E i \in Deliveries : handler[m][i] \in Active
           Fine(m) == m \in answered \cup postFailed \cup died \/ Working(m)
<1>a. SilentOnlyByFailure <=> \A m \in Posts : TakenUp(m) # {} => Fine(m)
  BY DEF SilentOnlyByFailure, Deliveries, Active
<1>b. SilentOnlyByFailure' <=> \A m \in Posts : TakenUp(m)' # {} => Fine(m)'
  BY DEF SilentOnlyByFailure, Deliveries, Active
<1> USE SlackAssumption
<1>1. CASE UNCHANGED slackVars
  BY <1>1, <1>a, <1>b DEF slackVars, TakenUp
<1>2. ASSUME NEW m \in Posts, OnEvent(m) PROVE SilentOnlyByFailure'
  <2>1. UNCHANGED <<answered, postFailed, died>>
    BY <1>2 DEF OnEvent
  <2>2. CASE UNCHANGED <<handler, marks>>
    BY <2>1, <2>2, <1>a, <1>b DEF TakenUp
  <2>3. CASE ~UNCHANGED <<handler, marks>>
    <3> DEFINE i == delivered[m] + 1
    <3>1. /\ i \in Deliveries
          /\ handler' = [handler EXCEPT ![m][i] = "begin"]
          /\ \A q \in Posts \ {m} : TakenUp(q)' = TakenUp(q)
      BY <1>2, <2>3, EventTaken
    <3>2. /\ handler'[m][i] = "begin"
          /\ \A q \in Posts \ {m} : handler'[q] = handler[q]
      BY <3>1 DEF ShapeOK
    <3>3. Fine(m)'
      BY <3>1, <3>2 DEF Active
    <3>4. \A q \in Posts \ {m} : TakenUp(q)' # {} => Fine(q)'
      BY <1>a, <2>1, <3>1, <3>2
    <3> QED
      BY <1>b, <3>3, <3>4
  <2> QED
    BY <2>2, <2>3
<1>3. ASSUME NEW m \in Posts, NEW i \in Deliveries,
             BeginHandling(m, i) \/ Ask(m, i) \/ AskReturns(m, i)
      PROVE  SilentOnlyByFailure'
  <2>1. PICK stage \in {"ask", "asking", "done"} :
          /\ handler' = [handler EXCEPT ![m][i] = stage]
          /\ stage = "done" => m \in answered' \cup postFailed'
          /\ answered \subseteq answered' /\ postFailed \subseteq postFailed'
          /\ UNCHANGED <<marks, died>>
    BY <1>3 DEF BeginHandling, Ask, AskReturns, Reply
  <2>2. /\ handler'[m][i] = stage
        /\ \A q \in Posts \ {m} : handler'[q] = handler[q]
    BY <2>1 DEF ShapeOK
  <2>3. Fine(m)'
    BY <2>1, <2>2 DEF Active
  <2>4. \A q \in Posts \ {m} : TakenUp(q)' # {} => Fine(q)'
    BY <1>a, <2>1, <2>2 DEF TakenUp
  <2> QED
    BY <1>b, <2>3, <2>4
<1>4. CASE SlackTick
  BY <1>4, <1>a, <1>b DEF SlackTick, TakenUp
<1>5. CASE BotRestarts
  <2>1. /\ UNCHANGED <<answered, postFailed, marks>>
        /\ died' = died \cup {m \in Posts : Working(m)}
    BY <1>5 DEF BotRestarts, Deliveries, Active
  <2> QED
    BY <1>a, <1>b, <2>1 DEF TakenUp
<1> QED
  BY <1>1, <1>2, <1>3, <1>4, <1>5 DEF SlackNext, Deliveries

LEMMA StepBot == BotInv /\ [SlackNext]_slackVars => BotInv'
  BY StepMemory, StepCount, StepSilent DEF BotInv, MemoryInv

LEMMA BotAnswersOnce == BotInv => QuestionsAreAnsweredOnce
<1> SUFFICES ASSUME BotInv, NEW m \in Posts
             PROVE  runs[m] <= IF AsksTheAgent(m) THEN Cardinality(TakenUp(m)) ELSE 0
  BY DEF BotInv, MemoryInv, QuestionsAreAnsweredOnce, RunsAreQuestions, AsksTheAgent
<1>1. /\ runs[m] \in Nat
      /\ Cardinality(Past(m)) \in Nat /\ Cardinality(Started(m)) \in Nat
      /\ Cardinality(TakenUp(m)) \in Nat
      /\ Cardinality(Past(m)) <= Cardinality(Started(m))
  BY Finite, SlackAssumption DEF BotInv, MemoryInv, ShapeOK
<1>2. /\ Cardinality(Started(m)) <= Cardinality(TakenUp(m))
      /\ runs[m] <= Cardinality(Past(m)) /\ (~AsksTheAgent(m) => runs[m] = 0)
  BY DEF BotInv, CountInv
<1> QED
  BY <1>1, <1>2

LEMMA BotTypes == BotInv => SlackTypeOK
<1> SUFFICES ASSUME BotInv PROVE SlackTypeOK
  OBVIOUS
<1>1. seen \subseteq [key : Posts, at : 0..MaxClock, nth : 1..Len(marks)]
  BY MarkTypes DEF BotInv, MemoryInv, EntriesOK, Entry
<1>2. runs \in [Posts -> 0..MaxDeliveries]
  <2>1. \A m \in Posts : runs[m] \in 0..MaxDeliveries
    BY Finite, SlackAssumption DEF BotInv, MemoryInv, CountInv, ShapeOK
  <2> QED
    BY <2>1 DEF BotInv, MemoryInv, ShapeOK
<1> QED
  BY <1>1, <1>2 DEF BotInv, MemoryInv, ShapeOK, EntriesOK, SlackTypeOK, Stages, Active,
                    Deliveries, Marks

(* Deliveries, memory, threads and history keep their types, and the memory *)
(* its size (slack_bot.py:60-222).                                         *)
THEOREM SlackTypeCorrect == SlackSpec => []SlackTypeOK
  BY InitBot, StepBot, BotTypes, PTL DEF SlackSpec

(* Redeliveries, evictions and restarts, in any number, leave each question *)
(* with one run and one answer, as far as the bot can remember and reply   *)
(* (_seen_event, _handle).                                                 *)
THEOREM QuestionsAnsweredOnce == SlackSpec => []QuestionsAreAnsweredOnce
  BY InitBot, StepBot, BotAnswersOnce, PTL DEF SlackSpec

(***************************************************************************)
(* The conversation memory.                                                *)
(***************************************************************************)

\* A message said so far has a console and a thread; those stored, refused or given
\* up are among them.
AuthorInv ==
    /\ \A m \in 1..said : author[m].thread \in Threads /\ author[m].by \in Consoles
    /\ \A m \in Msgs : m > said => author[m].thread = NoThread
EndedInv ==
    /\ \A m \in messages : m \in ended /\ m \notin refused
    /\ \A m \in refused : m \in ended
    /\ \A m \in ended : m \in 1..said

\* A message under way is its console's, in the console's thread and on its screen,
\* and every message whose save is not over is under way.
BusyInv ==
    \A c \in Consoles : saving[c].step # "none" =>
        /\ saving[c].msg \in 1..said /\ saving[c].msg \notin ended /\ saving[c].msg \in dialog[c]
        /\ author[saving[c].msg].by = c
        /\ author[saving[c].msg].thread = thread[c] /\ deleting[c] = NoThread
PendingInv ==
    \A m \in (1..said) \ ended : saving[author[m].by].step # "none" /\ saving[author[m].by].msg = m

\* Threads are listed, and deleted, only where a turn was said; the screen shows turns
\* of the console's thread.
Spoken(t) == \E m \in 1..said : author[m].thread = t
ListedInv ==
    /\ \A t \in Threads : title[t] # "absent" => Spoken(t)
    /\ \A c \in Consoles : deleting[c] # NoThread => Spoken(deleting[c])
DialogInv ==
    \A c \in Consoles : \A m \in dialog[c] : m \in 1..said /\ author[m].thread = thread[c]

\* A thread that two consoles have open, or that one has open while another
\* deletes it, is known to be shared.
SharedInv ==
    \A c, d \in Consoles : c # d /\ thread[c] # NoThread =>
        (thread[d] = thread[c] \/ deleting[d] = thread[c] => thread[c] \in shared)

\* A save that found its thread finds it gone, or one that did not finds it there,
\* only in a shared thread; when it is gone, a delete has crossed the message.
FoundGone ==
    \A c \in Consoles :
        saving[c].step = "upsert" /\ saving[c].found /\ title[author[saving[c].msg].thread] = "absent" =>
            author[saving[c].msg].thread \in shared /\ saving[c].msg \in crossed
FoundLate ==
    \A c \in Consoles :
        saving[c].step = "upsert" /\ ~saving[c].found /\ title[author[saving[c].msg].thread] # "absent" =>
            author[saving[c].msg].thread \in shared
AddGone ==
    \A c \in Consoles :
        saving[c].step = "add" /\ title[author[saving[c].msg].thread] = "absent" => saving[c].msg \in crossed

\* While a thread is half deleted, whatever is said in it counts as crossed.
CrossedInv ==
    \A c \in Consoles : \A m \in 1..said :
        deleting[c] # NoThread /\ author[m].thread = deleting[c] /\ (m \in messages \/ m \notin ended) =>
            m \in crossed

\* In a thread that nobody shares, a turn is said when the ones before it are saved.
TurnByTurn ==
    \A m, n \in 1..said :
        m < n /\ author[m].thread = author[n].thread /\ author[m].thread \notin shared => m \in ended

\* The rows are in the order said, and no row is ahead of the clock or the ids.
AheadInv ==
    \A m \in messages : IF memBackend = "sqlite" THEN order[m] <= lastId ELSE order[m] <= wall
OrderInv ==
    \A m, n \in messages :
        m < n /\ author[m].thread = author[n].thread /\ author[m].thread \notin shared =>
            ReadBefore(m, n) \/ (memBackend = "spanner" /\ order[m] = order[n])

\* The screen of a console that has its thread for itself, and deletes nothing, shows
\* every row and only what was stored, refused or is under way.
OwnThread(c) == thread[c] \notin shared \cup {NoThread} /\ deleting[c] # thread[c]
ScreenHasRows ==
    \A c \in Consoles : OwnThread(c) => \A m \in messages : author[m].thread = thread[c] => m \in dialog[c]
ScreenIsKept ==
    \A c \in Consoles : OwnThread(c) => \A m \in dialog[c] : m \in messages \cup refused \/ m \notin ended

ConversationInv ==
    /\ MemoryTypeOK /\ AuthorInv /\ EndedInv /\ BusyInv /\ PendingInv /\ ListedInv /\ DialogInv
    /\ SharedInv /\ FoundGone /\ FoundLate /\ AddGone /\ CrossedInv /\ TurnByTurn /\ AheadInv
    /\ OrderInv /\ ScreenHasRows /\ ScreenIsKept /\ OrphansOnlyByDelete /\ LostOnlyWhenShared

\* A thread that is listed has a row.
LEMMA Listed ==
  ASSUME NEW t, \E row \in list_threads : row.thread_id = t
  PROVE  t \in Threads /\ title[t] # "absent"
  BY DEF list_threads

\* What the constants are.
LEMMA Numbers == MaxTurns \in Nat /\ MaxWall \in Nat /\ NoThread \notin Threads /\ Msgs = 1..MaxTurns
  BY MemoryAssumption DEF Msgs

Savings == [step : {"none", "lookup", "upsert", "add"}, msg : 0..MaxTurns, found : BOOLEAN]

\* The save of c goes to a next step, or ends.
SaveAt(c, step) ==
    /\ \A d \in Consoles \ {c} : saving'[d] = saving[d]
    /\ saving'[c].step = step /\ saving'[c].msg = saving[c].msg
    /\ UNCHANGED <<ended, refused>>
SaveOver(c) ==
    /\ \A d \in Consoles \ {c} : saving'[d] = saving[d]
    /\ saving'[c].step = "none" /\ ended' = ended \cup {saving[c].msg}

\* A save goes to its next step, and the other consoles' saves stay.
LEMMA Steps ==
  ASSUME MemoryTypeOK, NEW c \in Consoles, NEW s \in Savings, Step(c, s)
  PROVE  saving' \in [Consoles -> Savings] /\ saving'[c] = s
         /\ \A d \in Consoles \ {c} : saving'[d] = saving[d]
  BY DEF MemoryTypeOK, Step, Savings

\* A save that is given up is over, and counted when it was refused.
LEMMA Drops ==
  ASSUME MemoryTypeOK, NEW c \in Consoles, NEW why, Drop(c, why)
  PROVE  /\ SaveOver(c) /\ saving' \in [Consoles -> Savings]
         /\ refused' = IF why = "refused" THEN refused \cup {saving[c].msg} ELSE refused
  <1>1. Resting \in Savings /\ Resting.step = "none"
    BY MemoryAssumption DEF Resting, Savings
  <1> QED
    BY <1>1, Steps DEF Drop, SaveOver

\* The lookup of a save says whether the thread has its row, or is refused.
LEMMA Lookups ==
  ASSUME MemoryTypeOK, NEW c \in Consoles, UpsertLookup(c)
  PROVE  /\ saving' \in [Consoles -> Savings]
         /\ \/ /\ SaveAt(c, "upsert")
               /\ saving'[c].found <=> title[author[saving[c].msg].thread] # "absent"
            \/ SaveOver(c) /\ refused' = refused \cup {saving[c].msg}
  <1> DEFINE s == [saving[c] EXCEPT !.step = "upsert", !.found = title[author[saving[c].msg].thread] # "absent"]
  <1>1. s \in Savings /\ s.step = "upsert" /\ s.msg = saving[c].msg
        /\ s.found = (title[author[saving[c].msg].thread] # "absent")
    BY DEF MemoryTypeOK, Savings
  <1>2. CASE Step(c, s) /\ UNCHANGED <<ended, refused>>
    <2>1. saving' \in [Consoles -> Savings] /\ saving'[c] = s
          /\ \A d \in Consoles \ {c} : saving'[d] = saving[d]
      BY <1>1, <1>2, Steps
    <2> QED
      BY <1>1, <1>2, <2>1 DEF SaveAt
  <1>3. CASE Drop(c, "refused")
    BY <1>3, Drops
  <1> QED
    BY <1>2, <1>3 DEF UpsertLookup

\* The write of the row: it is there, was written by someone else, or was refused.
LEMMA Writes ==
  ASSUME MemoryTypeOK, NEW c \in Consoles, UpsertWrite(c), author[saving[c].msg].thread \in Threads
  PROVE  /\ saving[c].step = "upsert"
         /\ title' \in [Threads -> {"absent", "untitled", "titled"}]
         /\ \A t \in Threads \ {author[saving[c].msg].thread} : title'[t] = title[t]
         /\ \A t \in Threads : title[t] # "absent" => title'[t] # "absent"
         /\ saving' \in [Consoles -> Savings]
         /\ LET there == title[author[saving[c].msg].thread] # "absent" IN
            \/ /\ SaveAt(c, "add")
               /\ title'[author[saving[c].msg].thread] = "absent" => saving[c].found /\ ~there
               /\ there => saving[c].found
            \/ SaveOver(c) /\ refused' = refused /\ (saving[c].found <=> ~there) /\ UNCHANGED title
            \/ SaveOver(c) /\ refused' = refused \cup {saving[c].msg} /\ UNCHANGED title
  <1> DEFINE m == saving[c].msg
             t == author[m].thread
             s == [saving[c] EXCEPT !.step = "add"]
             name == IF author[m].role = "user" THEN m ELSE 0
  <1> USE DEF MemoryTypeOK
  <1>1. s \in Savings /\ s.step = "add" /\ s.msg = saving[c].msg /\ s.found = saving[c].found
    BY DEF Savings
  <1>2. Step(c, s) /\ UNCHANGED <<ended, refused>> => SaveAt(c, "add") /\ saving' \in [Consoles -> Savings]
    <2>1. Step(c, s) => saving' \in [Consoles -> Savings] /\ saving'[c] = s
          /\ \A d \in Consoles \ {c} : saving'[d] = saving[d]
      BY <1>1, Steps
    <2> QED
      BY <1>1, <2>1 DEF SaveAt
  <1>3. \A why : Drop(c, why) =>
        /\ SaveOver(c) /\ saving' \in [Consoles -> Savings]
        /\ refused' = IF why = "refused" THEN refused \cup {saving[c].msg} ELSE refused
    BY Drops
  <1>4. CASE ~saving[c].found /\ title[t] = "absent" /\ Step(c, s) /\ UNCHANGED <<ended, refused>>
             /\ title' = [title EXCEPT ![t] = IF name = 0 THEN "untitled" ELSE "titled"]
    BY <1>2, <1>4 DEF UpsertWrite
  <1>5. CASE ~saving[c].found /\ title[t] # "absent" /\ Drop(c, "exists") /\ UNCHANGED title
    BY <1>3, <1>5 DEF UpsertWrite
  <1>6. CASE /\ saving[c].found /\ title[t] # "absent" /\ Step(c, s) /\ UNCHANGED <<ended, refused>>
             /\ title' = IF memBackend = "sqlite" /\ name # 0 THEN [title EXCEPT ![t] = "titled"] ELSE title
    BY <1>2, <1>6 DEF UpsertWrite
  <1>7. CASE /\ saving[c].found /\ title[t] = "absent" /\ UNCHANGED title
             /\ \/ Step(c, s) /\ UNCHANGED <<ended, refused>>
                \/ Drop(c, "gone")
    BY <1>2, <1>3, <1>7 DEF UpsertWrite
  <1>8. CASE Drop(c, "refused") /\ UNCHANGED title
    BY <1>3, <1>8 DEF UpsertWrite
  <1> QED
    BY <1>4, <1>5, <1>6, <1>7, <1>8 DEF UpsertWrite

\* The message is stored, in the order the backend gives it, or is refused.
LEMMA Adds ==
  ASSUME MemoryTypeOK, NEW c \in Consoles, add_message(c), saving[c].msg \in Msgs
  PROVE  /\ saving[c].step = "add" /\ saving' \in [Consoles -> Savings]
         /\ \/ /\ SaveOver(c) /\ refused' = refused /\ messages' = messages \cup {saving[c].msg}
               /\ IF memBackend = "sqlite"
                  THEN lastId' = lastId + 1 /\ order'[saving[c].msg] = lastId + 1
                  ELSE lastId' = lastId /\ order'[saving[c].msg] = wall
               /\ order' \in [Msgs -> Nat]
               /\ \A m \in Msgs \ {saving[c].msg} : order'[m] = order[m]
            \/ SaveOver(c) /\ refused' = refused \cup {saving[c].msg} /\ UNCHANGED <<messages, order, lastId>>
  <1>1. Resting \in Savings /\ Resting.step = "none"
    BY MemoryAssumption DEF Resting, Savings
  <1>2. CASE Drop(c, "refused") /\ UNCHANGED <<messages, order, lastId>>
    BY <1>2, Drops DEF add_message
  <1>3. CASE /\ Step(c, Resting) /\ ended' = ended \cup {saving[c].msg} /\ UNCHANGED refused
             /\ messages' = messages \cup {saving[c].msg}
             /\ lastId' = IF memBackend = "sqlite" THEN lastId + 1 ELSE lastId
             /\ order' = [order EXCEPT ![saving[c].msg] = IF memBackend = "sqlite" THEN lastId + 1 ELSE wall]
    <2>1. SaveOver(c) /\ refused' = refused /\ saving' \in [Consoles -> Savings]
      BY <1>1, <1>3, Steps DEF SaveOver
    <2> DEFINE v == IF memBackend = "sqlite" THEN lastId + 1 ELSE wall
    <2>2. v \in Nat /\ order' = [order EXCEPT ![saving[c].msg] = v] /\ order \in [Msgs -> Nat]
      BY <1>3, MemoryAssumption DEF MemoryTypeOK
    <2> HIDE DEF v
    <2>3. order' \in [Msgs -> Nat] /\ order'[saving[c].msg] = v
          /\ \A m \in Msgs \ {saving[c].msg} : order'[m] = order[m]
      BY <2>2
    <2> QED
      BY <1>3, <2>1, <2>3 DEF add_message, v
  <1> QED
    BY <1>2, <1>3 DEF add_message

\* What the three steps of a save do, in terms of the save.
Here(c) == author[saving[c].msg].thread
SaveRest(c) ==
    /\ saving[c].step # "none" /\ saving[c].msg \in 1..said /\ Here(c) \in Threads
    /\ UNCHANGED <<memBackend, wall, said, author, thread, dialog, deleting, shared, crossed>>
Refused(c) ==
    /\ SaveRest(c) /\ SaveOver(c) /\ refused' = refused \cup {saving[c].msg}
    /\ UNCHANGED <<title, messages, order, lastId>>
LookedUp(c) ==
    /\ SaveRest(c) /\ saving[c].step = "lookup" /\ UNCHANGED <<title, messages, order, lastId>>
    /\ SaveAt(c, "upsert") /\ (saving'[c].found <=> title[Here(c)] # "absent")
Written(c) ==
    /\ SaveRest(c) /\ saving[c].step = "upsert" /\ UNCHANGED <<messages, order, lastId>>
    /\ \A t \in Threads \ {Here(c)} : title'[t] = title[t]
    /\ title[Here(c)] # "absent" => title'[Here(c)] # "absent"
    /\ SaveAt(c, "add")
    /\ title'[Here(c)] = "absent" => saving[c].found /\ title[Here(c)] = "absent"
    /\ title[Here(c)] # "absent" => saving[c].found
LetGo(c) ==
    /\ SaveRest(c) /\ saving[c].step = "upsert" /\ UNCHANGED <<title, messages, order, lastId, refused>>
    /\ SaveOver(c) /\ (saving[c].found <=> title[Here(c)] = "absent")
Added(c) ==
    /\ SaveRest(c) /\ saving[c].step = "add" /\ UNCHANGED title
    /\ SaveOver(c) /\ UNCHANGED refused /\ messages' = messages \cup {saving[c].msg}
    /\ IF memBackend = "sqlite"
       THEN lastId' = lastId + 1 /\ order'[saving[c].msg] = lastId + 1
       ELSE lastId' = lastId /\ order'[saving[c].msg] = wall
    /\ \A m \in Msgs \ {saving[c].msg} : order'[m] = order[m]

\* The three steps of a save, value by value.
LEMMA Saves ==
  ASSUME MemoryTypeOK, AuthorInv, BusyInv, NEW c \in Consoles
  PROVE  /\ UpsertLookup(c) => LookedUp(c) \/ Refused(c)
         /\ UpsertWrite(c) => Written(c) \/ LetGo(c) \/ Refused(c)
         /\ add_message(c) => Added(c) \/ Refused(c)
  <1>1. saving[c].step # "none" => saving[c].msg \in 1..said /\ saving[c].msg \in Msgs /\ Here(c) \in Threads
    BY Numbers DEF MemoryTypeOK, AuthorInv, BusyInv, Here
  <1>2. ASSUME UpsertLookup(c) PROVE LookedUp(c) \/ Refused(c)
    <2>1. saving[c].step = "lookup" /\ UNCHANGED <<title, messages, order, lastId, memBackend, wall, said, author, thread, dialog, deleting, shared, crossed>>
      BY <1>2 DEF UpsertLookup
    <2> QED
      BY <1>1, <1>2, <2>1, Lookups DEF LookedUp, Refused, SaveRest, Here
  <1>3. ASSUME UpsertWrite(c) PROVE Written(c) \/ LetGo(c) \/ Refused(c)
    <2>1. saving[c].step = "upsert" /\ UNCHANGED <<messages, order, lastId, memBackend, wall, said, author, thread, dialog, deleting, shared, crossed>>
      BY <1>3 DEF UpsertWrite
    <2>2. author[saving[c].msg].thread \in Threads
      BY <1>1, <2>1 DEF Here
    <2> QED
      BY <1>1, <1>3, <2>1, <2>2, Writes DEF Written, LetGo, Refused, SaveRest, Here
  <1>4. ASSUME add_message(c) PROVE Added(c) \/ Refused(c)
    <2>1. saving[c].step = "add" /\ UNCHANGED <<title, memBackend, wall, said, author, thread, dialog, deleting, shared, crossed>>
      BY <1>4 DEF add_message
    <2>2. saving[c].msg \in Msgs
      BY <1>1, <2>1
    <2> QED
      BY <1>1, <1>4, <2>1, <2>2, Adds DEF Added, Refused, SaveRest, Here
  <1> QED
    BY <1>2, <1>3, <1>4

\* What the variables hold, value by value.
ValuesAre ==
    /\ said \in 0..MaxTurns /\ wall \in Nat /\ lastId \in Nat /\ \A m \in Msgs : order[m] \in Nat
    /\ messages \subseteq Msgs /\ ended \subseteq Msgs /\ refused \subseteq Msgs /\ crossed \subseteq Msgs
    /\ \A c \in Consoles : /\ thread[c] \in Threads \cup {NoThread} /\ deleting[c] \in Threads \cup {NoThread}
                           /\ dialog[c] \subseteq Msgs

\* The types say as much.
LEMMA ValuesHold == MemoryTypeOK => ValuesAre
  BY Numbers DEF MemoryTypeOK, ValuesAre

\* What the other steps do, value by value.
Idle(c) == saving[c].step = "none" /\ deleting[c] = NoThread
Said(c) ==
    /\ Idle(c) /\ thread[c] \in Threads /\ said + 1 \in Msgs /\ said' = said + 1
    /\ author'[said + 1].by = c /\ author'[said + 1].thread = thread[c]
    /\ \A n \in Msgs \ {said + 1} : author'[n] = author[n]
    /\ dialog'[c] = dialog[c] \cup {said + 1} /\ \A d \in Consoles \ {c} : dialog'[d] = dialog[d]
    /\ saving'[c].step = "lookup" /\ saving'[c].msg = said + 1
    /\ \A d \in Consoles \ {c} : saving'[d] = saving[d]
    /\ crossed \subseteq crossed' /\ crossed' \subseteq crossed \cup {said + 1}
    /\ (\E d \in Consoles : deleting[d] = thread[c]) => said + 1 \in crossed'
    /\ UNCHANGED <<memBackend, title, messages, order, lastId, wall, thread, deleting, ended, refused, shared>>
Opened(c, t, turns) ==
    /\ Idle(c) /\ t \in Threads
    /\ thread'[c] = t /\ \A d \in Consoles \ {c} : thread'[d] = thread[d]
    /\ dialog'[c] = turns /\ \A d \in Consoles \ {c} : dialog'[d] = dialog[d]
    /\ UNCHANGED <<memBackend, title, messages, order, lastId, wall, said, author, saving, deleting, ended, refused, crossed>>
New(c, t) ==
    /\ Opened(c, t, {}) /\ ~Spoken(t) /\ (\A d \in Consoles : thread[d] # t) /\ UNCHANGED shared
Loaded(c, t) ==
    /\ Opened(c, t, {m \in messages : author[m].thread = t}) /\ title[t] # "absent"
    /\ shared \subseteq shared' /\ shared' \subseteq shared \cup {t}
    /\ \A d \in Consoles : (d # c /\ thread[d] = t) \/ deleting[d] = t => t \in shared'
LeavesThread(c, t) ==
    /\ thread'[c] = IF thread[c] = t THEN NoThread ELSE thread[c]
    /\ dialog'[c] = IF thread[c] = t THEN {} ELSE dialog[c]
    /\ \A d \in Consoles \ {c} : thread'[d] = thread[d] /\ dialog'[d] = dialog[d]
Emptied(c, t) ==
    /\ Idle(c) /\ title[t] # "absent"
    /\ messages' \subseteq messages /\ \A m \in messages : m \in messages' <=> author[m].thread # t
    /\ shared \subseteq shared' /\ shared' \subseteq shared \cup {t}
    /\ \A d \in Consoles : d # c /\ thread[d] = t => t \in shared'
    /\ crossed \subseteq crossed' /\ crossed' \subseteq Msgs
    /\ \A m \in messages : author[m].thread = t => m \in crossed'
    /\ \A d \in Consoles : saving[d].step # "none" /\ saving[d].msg \in Msgs /\ author[saving[d].msg].thread = t =>
          saving[d].msg \in crossed'
    /\ \/ /\ memBackend = "sqlite" /\ LeavesThread(c, t) /\ UNCHANGED deleting
          /\ title'[t] = "absent" /\ \A u \in Threads \ {t} : title'[u] = title[u]
       \/ /\ memBackend # "sqlite" /\ UNCHANGED <<title, thread, dialog>>
          /\ deleting'[c] = t /\ \A d \in Consoles \ {c} : deleting'[d] = deleting[d]
    /\ UNCHANGED <<memBackend, order, lastId, wall, said, author, saving, ended, refused>>
Removed(c) ==
    /\ deleting[c] \in Threads /\ deleting'[c] = NoThread /\ \A d \in Consoles \ {c} : deleting'[d] = deleting[d]
    /\ \A u \in Threads \ {deleting[c]} : title'[u] = title[u]
    /\ title'[deleting[c]] \in {"absent", title[deleting[c]]}
    /\ \/ LeavesThread(c, deleting[c]) /\ UNCHANGED shared
       \/ UNCHANGED <<thread, dialog>> /\ shared' = shared \cup {deleting[c]}
    /\ UNCHANGED <<memBackend, messages, order, lastId, wall, said, author, saving, ended, refused, crossed>>

\* A console free to act is idle.
LEMMA IdleOK == ASSUME NEW c \in Consoles, Free(c) PROVE Idle(c)
  BY DEF Free, Idle, Resting

\* A turn that is said is new, of its console, and about to be saved.
LEMMA Says ==
  ASSUME MemoryTypeOK, NEW c \in Consoles, NEW role \in {"user", "assistant"}, SaveMessage(c, role)
  PROVE  Said(c)
  <1> DEFINE m == said + 1
             a == [by |-> c, thread |-> thread[c], role |-> role]
             s == [step |-> "lookup", msg |-> m, found |-> FALSE]
  <1>1. Idle(c) /\ thread[c] \in Threads /\ m \in Msgs /\ said' = m
    BY IdleOK, Numbers DEF SaveMessage, MemoryTypeOK
  <1>2. author' = [author EXCEPT ![m] = a] /\ saving' = [saving EXCEPT ![c] = s]
        /\ dialog' = [dialog EXCEPT ![c] = @ \cup {m}]
    BY DEF SaveMessage
  <1>3. author'[m] = a /\ \A n \in Msgs \ {m} : author'[n] = author[n]
    BY <1>1, <1>2 DEF MemoryTypeOK
  <1>4. dialog'[c] = dialog[c] \cup {m} /\ \A d \in Consoles \ {c} : dialog'[d] = dialog[d]
    BY <1>2 DEF MemoryTypeOK
  <1>5. saving'[c] = s /\ \A d \in Consoles \ {c} : saving'[d] = saving[d]
    BY <1>2 DEF MemoryTypeOK
  <1>6. /\ crossed \subseteq crossed' /\ crossed' \subseteq crossed \cup {m}
        /\ (\E d \in Consoles : deleting[d] = thread[c]) => m \in crossed'
        /\ UNCHANGED <<memBackend, title, messages, order, lastId, wall, thread, deleting, ended, refused, shared>>
    BY DEF SaveMessage
  <1> QED
    BY <1>1, <1>3, <1>4, <1>5, <1>6 DEF Said

\* A thread opened is fresh, or is loaded with the turns stored in it.
LEMMA Opens ==
  ASSUME MemoryTypeOK, NEW c \in Consoles
  PROVE  /\ new_thread(c) => \E t \in Threads : New(c, t)
         /\ \A t \in Threads : load_thread(c, t) => Loaded(c, t)
  <1>1. ASSUME new_thread(c) PROVE \E t \in Threads : New(c, t)
    <2>1. PICK t \in Threads : /\ \A m \in 1..said : author[m].thread # t
                               /\ Open(t) = {}
                               /\ thread' = [thread EXCEPT ![c] = t]
      BY <1>1 DEF new_thread
    <2>2. Idle(c) /\ dialog' = [dialog EXCEPT ![c] = {}]
      BY <1>1, IdleOK DEF new_thread
    <2>3. Opened(c, t, {}) /\ UNCHANGED shared
      BY <1>1, <2>1, <2>2 DEF new_thread, MemoryTypeOK, Opened
    <2> QED
      BY <2>1, <2>3 DEF New, Open, Spoken
  <1>2. ASSUME NEW t \in Threads, load_thread(c, t) PROVE Loaded(c, t)
    <2>1. Idle(c) /\ title[t] # "absent"
      BY <1>2, IdleOK, Listed DEF load_thread
    <2>2. Opened(c, t, {m \in messages : author[m].thread = t})
      BY <1>2, <2>1 DEF load_thread, MemoryTypeOK, Opened, get_messages
    <2>3. /\ shared \subseteq shared' /\ shared' \subseteq shared \cup {t}
          /\ \A d \in Consoles : (d # c /\ thread[d] = t) \/ deleting[d] = t => t \in shared'
      BY <1>2 DEF load_thread, Open
    <2> QED
      BY <2>1, <2>2, <2>3 DEF Loaded
  <1> QED
    BY <1>1, <1>2

\* A delete empties the thread, and then removes its row.
LEMMA Deletes ==
  ASSUME MemoryTypeOK, NEW c \in Consoles
  PROVE  /\ \A t \in Threads : DeleteMessages(c, t) => Emptied(c, t)
         /\ DeleteThreadRow(c) => Removed(c)
  <1>1. ASSUME NEW t \in Threads, DeleteMessages(c, t) PROVE Emptied(c, t)
    <2>1. Idle(c) /\ title[t] # "absent"
      BY <1>1, IdleOK, Listed DEF DeleteMessages
    <2>2. /\ messages' \subseteq messages /\ \A m \in messages : m \in messages' <=> author[m].thread # t
          /\ shared \subseteq shared' /\ shared' \subseteq shared \cup {t}
          /\ \A d \in Consoles : d # c /\ thread[d] = t => t \in shared'
      BY <1>1 DEF DeleteMessages, Without, get_messages, Open
    <2>3. /\ crossed \subseteq crossed' /\ crossed' \subseteq Msgs
          /\ \A m \in messages : author[m].thread = t => m \in crossed'
          /\ \A d \in Consoles : saving[d].step # "none" /\ saving[d].msg \in Msgs /\ author[saving[d].msg].thread = t =>
                saving[d].msg \in crossed'
      BY <1>1 DEF DeleteMessages, Crossing, Saving, MemoryTypeOK
    <2>4. CASE memBackend = "sqlite"
      <3>1. /\ title' = [title EXCEPT ![t] = "absent"]
            /\ thread' = [thread EXCEPT ![c] = IF @ = t THEN NoThread ELSE @]
            /\ dialog' = [dialog EXCEPT ![c] = IF thread[c] = t THEN {} ELSE @]
            /\ UNCHANGED deleting
        BY <1>1, <2>4 DEF DeleteMessages
      <3>2. LeavesThread(c, t) /\ title'[t] = "absent" /\ \A u \in Threads \ {t} : title'[u] = title[u]
        BY <3>1 DEF LeavesThread, MemoryTypeOK
      <3> QED
        BY <1>1, <2>1, <2>2, <2>3, <2>4, <3>1, <3>2 DEF Emptied, DeleteMessages
    <2>5. CASE memBackend # "sqlite"
      <3>1. deleting' = [deleting EXCEPT ![c] = t] /\ UNCHANGED <<title, thread, dialog>>
        BY <1>1, <2>5 DEF DeleteMessages
      <3>2. deleting'[c] = t /\ \A d \in Consoles \ {c} : deleting'[d] = deleting[d]
        BY <3>1 DEF MemoryTypeOK
      <3> QED
        BY <1>1, <2>1, <2>2, <2>3, <2>5, <3>1, <3>2 DEF Emptied, DeleteMessages
    <2> QED
      BY <2>4, <2>5
  <1>2. ASSUME DeleteThreadRow(c) PROVE Removed(c)
    <2> DEFINE t == deleting[c]
    <2>1. t \in Threads /\ deleting'[c] = NoThread /\ \A d \in Consoles \ {c} : deleting'[d] = deleting[d]
      BY <1>2 DEF DeleteThreadRow, MemoryTypeOK
    <2>2. title' = [title EXCEPT ![t] = "absent"] \/ UNCHANGED title
      BY <1>2 DEF DeleteThreadRow
    <2>3. /\ \A u \in Threads \ {t} : title'[u] = title[u]
          /\ title'[t] \in {"absent", title[t]}
      BY <2>1, <2>2 DEF MemoryTypeOK
    <2>4. \/ LeavesThread(c, t) /\ UNCHANGED shared
          \/ UNCHANGED <<thread, dialog>> /\ shared' = shared \cup {t}
      BY <1>2 DEF DeleteThreadRow, LeavesThread, MemoryTypeOK
    <2> QED
      BY <1>2, <2>1, <2>3, <2>4 DEF Removed, DeleteThreadRow
  <1> QED
    BY <1>1, <1>2

MemoryActs ==
    \/ \E c \in Consoles : \/ Said(c) \/ LookedUp(c) \/ Written(c) \/ Added(c) \/ Refused(c) \/ LetGo(c) \/ Removed(c)
                           \/ \E t \in Threads : New(c, t) \/ Loaded(c, t) \/ Emptied(c, t)
    \/ MemoryTick \/ UNCHANGED memoryVars

\* Every step is one of those.
LEMMA Steppings == MemoryTypeOK /\ AuthorInv /\ BusyInv /\ [MemoryNext]_memoryVars => MemoryActs
  BY Saves, Says, Opens, Deletes DEF MemoryNext, MemoryActs

\* Who said a turn, and where, never changes.
LEMMA AuthorInvNext ==
  ASSUME ConversationInv, MemoryActs
  PROVE  AuthorInv'
  <1> USE Numbers DEF ValuesAre
  <1>0. ValuesAre /\ AuthorInv
    BY ValuesHold DEF ConversationInv
  <1>1. ASSUME NEW c \in Consoles, Said(c) PROVE AuthorInv'
    BY <1>0, <1>1 DEF AuthorInv, Said
  <1>2. ASSUME NEW c \in Consoles, LookedUp(c) PROVE AuthorInv'
    BY <1>0, <1>2 DEF AuthorInv, LookedUp, SaveAt, SaveRest
  <1>3. ASSUME NEW c \in Consoles, Written(c) PROVE AuthorInv'
    BY <1>0, <1>3 DEF AuthorInv, Written, SaveAt, SaveRest
  <1>4. ASSUME NEW c \in Consoles, LetGo(c) PROVE AuthorInv'
    BY <1>0, <1>4 DEF AuthorInv, LetGo, SaveOver, SaveRest
  <1>5. ASSUME NEW c \in Consoles, Refused(c) PROVE AuthorInv'
    BY <1>0, <1>5 DEF AuthorInv, Refused, SaveOver, SaveRest
  <1>6. ASSUME NEW c \in Consoles, Added(c) PROVE AuthorInv'
    BY <1>0, <1>6 DEF AuthorInv, Added, SaveOver, SaveRest
  <1>7. ASSUME NEW c \in Consoles, NEW t \in Threads, New(c, t) PROVE AuthorInv'
    BY <1>0, <1>7 DEF AuthorInv, New, Opened
  <1>8. ASSUME NEW c \in Consoles, NEW t \in Threads, Loaded(c, t) PROVE AuthorInv'
    BY <1>0, <1>8 DEF AuthorInv, Loaded, Opened
  <1>9. ASSUME NEW c \in Consoles, NEW t \in Threads, Emptied(c, t) PROVE AuthorInv'
    BY <1>0, <1>9 DEF AuthorInv, Emptied
  <1>10. ASSUME NEW c \in Consoles, Removed(c) PROVE AuthorInv'
    BY <1>0, <1>10 DEF AuthorInv, Removed
  <1>11. ASSUME MemoryTick PROVE AuthorInv'
    BY <1>0, <1>11 DEF AuthorInv, MemoryTick
  <1>12. ASSUME UNCHANGED memoryVars PROVE AuthorInv'
    BY <1>0, <1>12 DEF AuthorInv, memoryVars
  <1> QED
    BY <1>1, <1>2, <1>3, <1>4, <1>5, <1>6, <1>7, <1>8, <1>9, <1>10, <1>11, <1>12 DEF MemoryActs

\* What is stored or refused is over, and not both.
LEMMA EndedInvNext ==
  ASSUME ConversationInv, MemoryActs
  PROVE  EndedInv'
  <1> USE Numbers DEF ValuesAre
  <1>0. ValuesAre /\ EndedInv /\ BusyInv /\ AuthorInv
    BY ValuesHold DEF ConversationInv
  <1>1. ASSUME NEW c \in Consoles, Said(c) PROVE EndedInv'
    BY <1>0, <1>1 DEF EndedInv, Said
  <1>2. ASSUME NEW c \in Consoles, LookedUp(c) PROVE EndedInv'
    BY <1>0, <1>2 DEF EndedInv, LookedUp, SaveAt, SaveRest
  <1>3. ASSUME NEW c \in Consoles, Written(c) PROVE EndedInv'
    BY <1>0, <1>3 DEF EndedInv, Written, SaveAt, SaveRest
  <1>4. ASSUME NEW c \in Consoles, LetGo(c) PROVE EndedInv'
    BY <1>0, <1>4 DEF EndedInv, LetGo, SaveOver, SaveRest
  <1>5. ASSUME NEW c \in Consoles, Refused(c) PROVE EndedInv'
    BY <1>0, <1>5 DEF EndedInv, BusyInv, AuthorInv, Refused, SaveOver, SaveRest
  <1>6. ASSUME NEW c \in Consoles, Added(c) PROVE EndedInv'
    BY <1>0, <1>6 DEF EndedInv, BusyInv, AuthorInv, Added, SaveOver, SaveRest
  <1>7. ASSUME NEW c \in Consoles, NEW t \in Threads, New(c, t) PROVE EndedInv'
    BY <1>0, <1>7 DEF EndedInv, New, Opened
  <1>8. ASSUME NEW c \in Consoles, NEW t \in Threads, Loaded(c, t) PROVE EndedInv'
    BY <1>0, <1>8 DEF EndedInv, Loaded, Opened
  <1>9. ASSUME NEW c \in Consoles, NEW t \in Threads, Emptied(c, t) PROVE EndedInv'
    BY <1>0, <1>9 DEF EndedInv, Emptied
  <1>10. ASSUME NEW c \in Consoles, Removed(c) PROVE EndedInv'
    BY <1>0, <1>10 DEF EndedInv, Removed
  <1>11. ASSUME MemoryTick PROVE EndedInv'
    BY <1>0, <1>11 DEF EndedInv, MemoryTick
  <1>12. ASSUME UNCHANGED memoryVars PROVE EndedInv'
    BY <1>0, <1>12 DEF EndedInv, memoryVars
  <1> QED
    BY <1>1, <1>2, <1>3, <1>4, <1>5, <1>6, <1>7, <1>8, <1>9, <1>10, <1>11, <1>12 DEF MemoryActs

\* A save under way is of a turn its console said and shows.
LEMMA BusyInvNext ==
  ASSUME ConversationInv, MemoryActs
  PROVE  BusyInv'
  <1> USE Numbers DEF ValuesAre
  <1>0. ValuesAre /\ BusyInv /\ AuthorInv /\ EndedInv
    BY ValuesHold DEF ConversationInv
  <1>1. ASSUME NEW c \in Consoles, Said(c) PROVE BusyInv'
    BY <1>0, <1>1 DEF BusyInv, AuthorInv, EndedInv, Said, Idle
  <1>2. ASSUME NEW c \in Consoles, LookedUp(c) PROVE BusyInv'
    BY <1>0, <1>2 DEF BusyInv, LookedUp, SaveAt, SaveRest
  <1>3. ASSUME NEW c \in Consoles, Written(c) PROVE BusyInv'
    BY <1>0, <1>3 DEF BusyInv, Written, SaveAt, SaveRest
  <1>4. ASSUME NEW c \in Consoles, LetGo(c) PROVE BusyInv'
    BY <1>0, <1>4 DEF BusyInv, LetGo, SaveOver, SaveRest
  <1>5. ASSUME NEW c \in Consoles, Refused(c) PROVE BusyInv'
    BY <1>0, <1>5 DEF BusyInv, Refused, SaveOver, SaveRest
  <1>6. ASSUME NEW c \in Consoles, Added(c) PROVE BusyInv'
    BY <1>0, <1>6 DEF BusyInv, Added, SaveOver, SaveRest
  <1>7. ASSUME NEW c \in Consoles, NEW t \in Threads, New(c, t) PROVE BusyInv'
    BY <1>0, <1>7 DEF BusyInv, New, Opened, Spoken, Idle
  <1>8. ASSUME NEW c \in Consoles, NEW t \in Threads, Loaded(c, t) PROVE BusyInv'
    BY <1>0, <1>8 DEF BusyInv, Loaded, Opened, Idle
  <1>9. ASSUME NEW c \in Consoles, NEW t \in Threads, Emptied(c, t) PROVE BusyInv'
    BY <1>0, <1>9 DEF BusyInv, Emptied, LeavesThread, Idle
  <1>10. ASSUME NEW c \in Consoles, Removed(c) PROVE BusyInv'
    BY <1>0, <1>10 DEF BusyInv, Removed, LeavesThread
  <1>11. ASSUME MemoryTick PROVE BusyInv'
    BY <1>0, <1>11 DEF BusyInv, MemoryTick
  <1>12. ASSUME UNCHANGED memoryVars PROVE BusyInv'
    BY <1>0, <1>12 DEF BusyInv, memoryVars
  <1> QED
    BY <1>1, <1>2, <1>3, <1>4, <1>5, <1>6, <1>7, <1>8, <1>9, <1>10, <1>11, <1>12 DEF MemoryActs

\* A turn that is not over is still being saved.
LEMMA PendingInvNext ==
  ASSUME ConversationInv, MemoryActs
  PROVE  PendingInv'
  <1> USE Numbers DEF ValuesAre
  <1>0. ValuesAre /\ PendingInv /\ AuthorInv /\ BusyInv /\ EndedInv
    BY ValuesHold DEF ConversationInv
  <1>1. ASSUME NEW c \in Consoles, Said(c) PROVE PendingInv'
    BY <1>0, <1>1 DEF PendingInv, AuthorInv, BusyInv, EndedInv, Said, Idle
  <1>2. ASSUME NEW c \in Consoles, LookedUp(c) PROVE PendingInv'
    BY <1>0, <1>2 DEF PendingInv, AuthorInv, BusyInv, EndedInv, LookedUp, SaveAt, SaveRest
  <1>3. ASSUME NEW c \in Consoles, Written(c) PROVE PendingInv'
    BY <1>0, <1>3 DEF PendingInv, AuthorInv, BusyInv, EndedInv, Written, SaveAt, SaveRest
  <1>4. ASSUME NEW c \in Consoles, LetGo(c) PROVE PendingInv'
    BY <1>0, <1>4 DEF PendingInv, AuthorInv, BusyInv, EndedInv, LetGo, SaveOver, SaveRest
  <1>5. ASSUME NEW c \in Consoles, Refused(c) PROVE PendingInv'
    BY <1>0, <1>5 DEF PendingInv, AuthorInv, BusyInv, EndedInv, Refused, SaveOver, SaveRest
  <1>6. ASSUME NEW c \in Consoles, Added(c) PROVE PendingInv'
    BY <1>0, <1>6 DEF PendingInv, AuthorInv, BusyInv, EndedInv, Added, SaveOver, SaveRest
  <1>7. ASSUME NEW c \in Consoles, NEW t \in Threads, New(c, t) PROVE PendingInv'
    BY <1>0, <1>7 DEF PendingInv, New, Opened
  <1>8. ASSUME NEW c \in Consoles, NEW t \in Threads, Loaded(c, t) PROVE PendingInv'
    BY <1>0, <1>8 DEF PendingInv, Loaded, Opened
  <1>9. ASSUME NEW c \in Consoles, NEW t \in Threads, Emptied(c, t) PROVE PendingInv'
    BY <1>0, <1>9 DEF PendingInv, Emptied
  <1>10. ASSUME NEW c \in Consoles, Removed(c) PROVE PendingInv'
    BY <1>0, <1>10 DEF PendingInv, Removed
  <1>11. ASSUME MemoryTick PROVE PendingInv'
    BY <1>0, <1>11 DEF PendingInv, MemoryTick
  <1>12. ASSUME UNCHANGED memoryVars PROVE PendingInv'
    BY <1>0, <1>12 DEF PendingInv, memoryVars
  <1> QED
    BY <1>1, <1>2, <1>3, <1>4, <1>5, <1>6, <1>7, <1>8, <1>9, <1>10, <1>11, <1>12 DEF MemoryActs

\* Only threads where a turn was said are listed or deleted.
LEMMA ListedInvNext ==
  ASSUME ConversationInv, MemoryActs
  PROVE  ListedInv'
  <1> USE Numbers DEF ValuesAre
  <1>0. ValuesAre /\ ListedInv /\ AuthorInv /\ BusyInv
    BY ValuesHold DEF ConversationInv
  <1>1. ASSUME NEW c \in Consoles, Said(c) PROVE ListedInv'
    BY <1>0, <1>1 DEF ListedInv, Spoken, Said, Idle
  <1>2. ASSUME NEW c \in Consoles, LookedUp(c) PROVE ListedInv'
    BY <1>0, <1>2 DEF ListedInv, Spoken, LookedUp, SaveAt, SaveRest, Here
  <1>3. ASSUME NEW c \in Consoles, Written(c) PROVE ListedInv'
    BY <1>0, <1>3 DEF ListedInv, Spoken, Written, SaveAt, SaveRest, Here
  <1>4. ASSUME NEW c \in Consoles, LetGo(c) PROVE ListedInv'
    BY <1>0, <1>4 DEF ListedInv, Spoken, LetGo, SaveOver, SaveRest, Here
  <1>5. ASSUME NEW c \in Consoles, Refused(c) PROVE ListedInv'
    BY <1>0, <1>5 DEF ListedInv, Spoken, Refused, SaveOver, SaveRest, Here
  <1>6. ASSUME NEW c \in Consoles, Added(c) PROVE ListedInv'
    BY <1>0, <1>6 DEF ListedInv, Spoken, Added, SaveOver, SaveRest, Here
  <1>7. ASSUME NEW c \in Consoles, NEW t \in Threads, New(c, t) PROVE ListedInv'
    BY <1>0, <1>7 DEF ListedInv, Spoken, New, Opened, Spoken, Idle
  <1>8. ASSUME NEW c \in Consoles, NEW t \in Threads, Loaded(c, t) PROVE ListedInv'
    BY <1>0, <1>8 DEF ListedInv, Spoken, Loaded, Opened, Idle
  <1>9. ASSUME NEW c \in Consoles, NEW t \in Threads, Emptied(c, t) PROVE ListedInv'
    BY <1>0, <1>9 DEF ListedInv, Spoken, Emptied, LeavesThread, Idle
  <1>10. ASSUME NEW c \in Consoles, Removed(c) PROVE ListedInv'
    BY <1>0, <1>10 DEF ListedInv, Spoken, Removed, LeavesThread
  <1>11. ASSUME MemoryTick PROVE ListedInv'
    BY <1>0, <1>11 DEF ListedInv, Spoken, MemoryTick
  <1>12. ASSUME UNCHANGED memoryVars PROVE ListedInv'
    BY <1>0, <1>12 DEF ListedInv, Spoken, memoryVars
  <1> QED
    BY <1>1, <1>2, <1>3, <1>4, <1>5, <1>6, <1>7, <1>8, <1>9, <1>10, <1>11, <1>12 DEF MemoryActs

\* The screen shows turns of its thread.
LEMMA DialogInvNext ==
  ASSUME ConversationInv, MemoryActs
  PROVE  DialogInv'
  <1> USE Numbers DEF ValuesAre
  <1>0. ValuesAre /\ DialogInv /\ AuthorInv /\ EndedInv /\ BusyInv
    BY ValuesHold DEF ConversationInv
  <1>1. ASSUME NEW c \in Consoles, Said(c) PROVE DialogInv'
    BY <1>0, <1>1 DEF DialogInv, Said
  <1>2. ASSUME NEW c \in Consoles, LookedUp(c) PROVE DialogInv'
    BY <1>0, <1>2 DEF DialogInv, LookedUp, SaveAt, SaveRest
  <1>3. ASSUME NEW c \in Consoles, Written(c) PROVE DialogInv'
    BY <1>0, <1>3 DEF DialogInv, Written, SaveAt, SaveRest
  <1>4. ASSUME NEW c \in Consoles, LetGo(c) PROVE DialogInv'
    BY <1>0, <1>4 DEF DialogInv, LetGo, SaveOver, SaveRest
  <1>5. ASSUME NEW c \in Consoles, Refused(c) PROVE DialogInv'
    BY <1>0, <1>5 DEF DialogInv, Refused, SaveOver, SaveRest
  <1>6. ASSUME NEW c \in Consoles, Added(c) PROVE DialogInv'
    BY <1>0, <1>6 DEF DialogInv, Added, SaveOver, SaveRest
  <1>7. ASSUME NEW c \in Consoles, NEW t \in Threads, New(c, t) PROVE DialogInv'
    BY <1>0, <1>7 DEF DialogInv, New, Opened
  <1>8. ASSUME NEW c \in Consoles, NEW t \in Threads, Loaded(c, t) PROVE DialogInv'
    <2>1. thread'[c] = t /\ author' = author /\ said' = said /\ \A d \in Consoles \ {c} : thread'[d] = thread[d]
      BY <1>8 DEF Loaded, Opened
    <2>2. /\ \A m \in dialog'[c] : m \in messages /\ author[m].thread = t
          /\ \A d \in Consoles \ {c} : dialog'[d] = dialog[d]
      BY <1>8 DEF Loaded, Opened
    <2> QED
      BY <1>0, <2>1, <2>2 DEF DialogInv, EndedInv
  <1>9. ASSUME NEW c \in Consoles, NEW t \in Threads, Emptied(c, t) PROVE DialogInv'
    BY <1>0, <1>9 DEF DialogInv, Emptied, LeavesThread, Idle
  <1>10. ASSUME NEW c \in Consoles, Removed(c) PROVE DialogInv'
    BY <1>0, <1>10 DEF DialogInv, Removed, LeavesThread
  <1>11. ASSUME MemoryTick PROVE DialogInv'
    BY <1>0, <1>11 DEF DialogInv, MemoryTick
  <1>12. ASSUME UNCHANGED memoryVars PROVE DialogInv'
    BY <1>0, <1>12 DEF DialogInv, memoryVars
  <1> QED
    BY <1>1, <1>2, <1>3, <1>4, <1>5, <1>6, <1>7, <1>8, <1>9, <1>10, <1>11, <1>12 DEF MemoryActs

\* Threads open twice are known to be shared.
LEMMA SharedInvNext ==
  ASSUME ConversationInv, MemoryActs
  PROVE  SharedInv'
  <1> USE Numbers DEF ValuesAre
  <1>0. ValuesAre /\ SharedInv /\ AuthorInv /\ ListedInv
    BY ValuesHold DEF ConversationInv
  <1>1. ASSUME NEW c \in Consoles, Said(c) PROVE SharedInv'
    BY <1>0, <1>1 DEF SharedInv, Said
  <1>2. ASSUME NEW c \in Consoles, LookedUp(c) PROVE SharedInv'
    BY <1>0, <1>2 DEF SharedInv, LookedUp, SaveAt, SaveRest
  <1>3. ASSUME NEW c \in Consoles, Written(c) PROVE SharedInv'
    BY <1>0, <1>3 DEF SharedInv, Written, SaveAt, SaveRest
  <1>4. ASSUME NEW c \in Consoles, LetGo(c) PROVE SharedInv'
    BY <1>0, <1>4 DEF SharedInv, LetGo, SaveOver, SaveRest
  <1>5. ASSUME NEW c \in Consoles, Refused(c) PROVE SharedInv'
    BY <1>0, <1>5 DEF SharedInv, Refused, SaveOver, SaveRest
  <1>6. ASSUME NEW c \in Consoles, Added(c) PROVE SharedInv'
    BY <1>0, <1>6 DEF SharedInv, Added, SaveOver, SaveRest
  <1>7. ASSUME NEW c \in Consoles, NEW t \in Threads, New(c, t) PROVE SharedInv'
    BY <1>0, <1>7 DEF SharedInv, AuthorInv, ListedInv, New, Opened
  <1>8. ASSUME NEW c \in Consoles, NEW t \in Threads, Loaded(c, t) PROVE SharedInv'
    BY <1>0, <1>8 DEF SharedInv, Loaded, Opened
  <1>9. ASSUME NEW c \in Consoles, NEW t \in Threads, Emptied(c, t) PROVE SharedInv'
    BY <1>0, <1>9 DEF SharedInv, Spoken, Emptied, LeavesThread, Idle
  <1>10. ASSUME NEW c \in Consoles, Removed(c) PROVE SharedInv'
    BY <1>0, <1>10 DEF SharedInv, Spoken, Removed, LeavesThread
  <1>11. ASSUME MemoryTick PROVE SharedInv'
    BY <1>0, <1>11 DEF SharedInv, MemoryTick
  <1>12. ASSUME UNCHANGED memoryVars PROVE SharedInv'
    BY <1>0, <1>12 DEF SharedInv, memoryVars
  <1> QED
    BY <1>1, <1>2, <1>3, <1>4, <1>5, <1>6, <1>7, <1>8, <1>9, <1>10, <1>11, <1>12 DEF MemoryActs

\* A row found and then gone is of a shared thread, its message crossed.
LEMMA FoundGoneNext ==
  ASSUME ConversationInv, MemoryActs
  PROVE  FoundGone'
  <1> USE Numbers DEF ValuesAre
  <1>0. ValuesAre /\ FoundGone /\ AuthorInv /\ EndedInv /\ BusyInv /\ SharedInv /\ CrossedInv
    BY ValuesHold DEF ConversationInv
  <1>1. ASSUME NEW c \in Consoles, Said(c) PROVE FoundGone'
    BY <1>0, <1>1 DEF FoundGone, AuthorInv, EndedInv, BusyInv, SharedInv, CrossedInv, Said
  <1>2. ASSUME NEW c \in Consoles, LookedUp(c) PROVE FoundGone'
    BY <1>0, <1>2 DEF FoundGone, LookedUp, SaveAt, SaveRest, Here
  <1>3. ASSUME NEW c \in Consoles, Written(c) PROVE FoundGone'
    BY <1>0, <1>3 DEF FoundGone, AuthorInv, EndedInv, BusyInv, SharedInv, CrossedInv, Written, SaveAt, SaveRest
  <1>4. ASSUME NEW c \in Consoles, LetGo(c) PROVE FoundGone'
    BY <1>0, <1>4 DEF FoundGone, LetGo, SaveOver, SaveRest
  <1>5. ASSUME NEW c \in Consoles, Refused(c) PROVE FoundGone'
    BY <1>0, <1>5 DEF FoundGone, Refused, SaveOver, SaveRest
  <1>6. ASSUME NEW c \in Consoles, Added(c) PROVE FoundGone'
    BY <1>0, <1>6 DEF FoundGone, Added, SaveOver, SaveRest
  <1>7. ASSUME NEW c \in Consoles, NEW t \in Threads, New(c, t) PROVE FoundGone'
    BY <1>0, <1>7 DEF FoundGone, New, Opened
  <1>8. ASSUME NEW c \in Consoles, NEW t \in Threads, Loaded(c, t) PROVE FoundGone'
    BY <1>0, <1>8 DEF FoundGone, Loaded, Opened
  <1>9. ASSUME NEW c \in Consoles, NEW t \in Threads, Emptied(c, t) PROVE FoundGone'
    BY <1>0, <1>9 DEF FoundGone, AuthorInv, EndedInv, BusyInv, SharedInv, CrossedInv, Emptied, LeavesThread, Idle
  <1>10. ASSUME NEW c \in Consoles, Removed(c) PROVE FoundGone'
    BY <1>0, <1>10 DEF FoundGone, AuthorInv, EndedInv, BusyInv, SharedInv, CrossedInv, Removed
  <1>11. ASSUME MemoryTick PROVE FoundGone'
    BY <1>0, <1>11 DEF FoundGone, MemoryTick
  <1>12. ASSUME UNCHANGED memoryVars PROVE FoundGone'
    BY <1>0, <1>12 DEF FoundGone, memoryVars
  <1> QED
    BY <1>1, <1>2, <1>3, <1>4, <1>5, <1>6, <1>7, <1>8, <1>9, <1>10, <1>11, <1>12 DEF MemoryActs

\* A row not found and then there is of a shared thread.
LEMMA FoundLateNext ==
  ASSUME ConversationInv, MemoryActs
  PROVE  FoundLate'
  <1> USE Numbers DEF ValuesAre
  <1>0. ValuesAre /\ FoundLate /\ AuthorInv /\ EndedInv /\ BusyInv /\ SharedInv
    BY ValuesHold DEF ConversationInv
  <1>1. ASSUME NEW c \in Consoles, Said(c) PROVE FoundLate'
    BY <1>0, <1>1 DEF FoundLate, AuthorInv, EndedInv, BusyInv, SharedInv, Said
  <1>2. ASSUME NEW c \in Consoles, LookedUp(c) PROVE FoundLate'
    BY <1>0, <1>2 DEF FoundLate, LookedUp, SaveAt, SaveRest, Here
  <1>3. ASSUME NEW c \in Consoles, Written(c) PROVE FoundLate'
    BY <1>0, <1>3 DEF FoundLate, AuthorInv, EndedInv, BusyInv, SharedInv, Written, SaveAt, SaveRest, Here
  <1>4. ASSUME NEW c \in Consoles, LetGo(c) PROVE FoundLate'
    BY <1>0, <1>4 DEF FoundLate, LetGo, SaveOver, SaveRest
  <1>5. ASSUME NEW c \in Consoles, Refused(c) PROVE FoundLate'
    BY <1>0, <1>5 DEF FoundLate, Refused, SaveOver, SaveRest
  <1>6. ASSUME NEW c \in Consoles, Added(c) PROVE FoundLate'
    BY <1>0, <1>6 DEF FoundLate, Added, SaveOver, SaveRest
  <1>7. ASSUME NEW c \in Consoles, NEW t \in Threads, New(c, t) PROVE FoundLate'
    BY <1>0, <1>7 DEF FoundLate, New, Opened
  <1>8. ASSUME NEW c \in Consoles, NEW t \in Threads, Loaded(c, t) PROVE FoundLate'
    BY <1>0, <1>8 DEF FoundLate, Loaded, Opened
  <1>9. ASSUME NEW c \in Consoles, NEW t \in Threads, Emptied(c, t) PROVE FoundLate'
    BY <1>0, <1>9 DEF FoundLate, AuthorInv, EndedInv, BusyInv, SharedInv, Emptied
  <1>10. ASSUME NEW c \in Consoles, Removed(c) PROVE FoundLate'
    BY <1>0, <1>10 DEF FoundLate, AuthorInv, EndedInv, BusyInv, SharedInv, Removed
  <1>11. ASSUME MemoryTick PROVE FoundLate'
    BY <1>0, <1>11 DEF FoundLate, MemoryTick
  <1>12. ASSUME UNCHANGED memoryVars PROVE FoundLate'
    BY <1>0, <1>12 DEF FoundLate, memoryVars
  <1> QED
    BY <1>1, <1>2, <1>3, <1>4, <1>5, <1>6, <1>7, <1>8, <1>9, <1>10, <1>11, <1>12 DEF MemoryActs

\* A message added where the row is gone was crossed by a delete.
LEMMA AddGoneNext ==
  ASSUME ConversationInv, MemoryActs
  PROVE  AddGone'
  <1> USE Numbers DEF ValuesAre
  <1>0. ValuesAre /\ AddGone /\ AuthorInv /\ EndedInv /\ BusyInv /\ FoundGone /\ CrossedInv
    BY ValuesHold DEF ConversationInv
  <1>1. ASSUME NEW c \in Consoles, Said(c) PROVE AddGone'
    BY <1>0, <1>1 DEF AddGone, AuthorInv, EndedInv, BusyInv, FoundGone, CrossedInv, Said
  <1>2. ASSUME NEW c \in Consoles, LookedUp(c) PROVE AddGone'
    BY <1>0, <1>2 DEF AddGone, LookedUp, SaveAt, SaveRest
  <1>3. ASSUME NEW c \in Consoles, Written(c) PROVE AddGone'
    BY <1>0, <1>3 DEF AddGone, AuthorInv, EndedInv, BusyInv, FoundGone, CrossedInv, Written, SaveAt, SaveRest, Here
  <1>4. ASSUME NEW c \in Consoles, LetGo(c) PROVE AddGone'
    BY <1>0, <1>4 DEF AddGone, LetGo, SaveOver, SaveRest
  <1>5. ASSUME NEW c \in Consoles, Refused(c) PROVE AddGone'
    BY <1>0, <1>5 DEF AddGone, Refused, SaveOver, SaveRest
  <1>6. ASSUME NEW c \in Consoles, Added(c) PROVE AddGone'
    BY <1>0, <1>6 DEF AddGone, Added, SaveOver, SaveRest
  <1>7. ASSUME NEW c \in Consoles, NEW t \in Threads, New(c, t) PROVE AddGone'
    BY <1>0, <1>7 DEF AddGone, New, Opened
  <1>8. ASSUME NEW c \in Consoles, NEW t \in Threads, Loaded(c, t) PROVE AddGone'
    BY <1>0, <1>8 DEF AddGone, Loaded, Opened
  <1>9. ASSUME NEW c \in Consoles, NEW t \in Threads, Emptied(c, t) PROVE AddGone'
    BY <1>0, <1>9 DEF AddGone, AuthorInv, EndedInv, BusyInv, FoundGone, CrossedInv, Emptied
  <1>10. ASSUME NEW c \in Consoles, Removed(c) PROVE AddGone'
    BY <1>0, <1>10 DEF AddGone, AuthorInv, EndedInv, BusyInv, FoundGone, CrossedInv, Removed
  <1>11. ASSUME MemoryTick PROVE AddGone'
    BY <1>0, <1>11 DEF AddGone, MemoryTick
  <1>12. ASSUME UNCHANGED memoryVars PROVE AddGone'
    BY <1>0, <1>12 DEF AddGone, memoryVars
  <1> QED
    BY <1>1, <1>2, <1>3, <1>4, <1>5, <1>6, <1>7, <1>8, <1>9, <1>10, <1>11, <1>12 DEF MemoryActs

\* What is said in a thread half deleted counts as crossed.
LEMMA CrossedInvNext ==
  ASSUME ConversationInv, MemoryActs
  PROVE  CrossedInv'
  <1> USE Numbers DEF ValuesAre
  <1>0. ValuesAre /\ CrossedInv /\ AuthorInv /\ EndedInv /\ BusyInv /\ PendingInv
    BY ValuesHold DEF ConversationInv
  <1>1. ASSUME NEW c \in Consoles, Said(c) PROVE CrossedInv'
    BY <1>0, <1>1 DEF CrossedInv, Said
  <1>2. ASSUME NEW c \in Consoles, LookedUp(c) PROVE CrossedInv'
    BY <1>0, <1>2 DEF CrossedInv, LookedUp, SaveAt, SaveRest
  <1>3. ASSUME NEW c \in Consoles, Written(c) PROVE CrossedInv'
    BY <1>0, <1>3 DEF CrossedInv, Written, SaveAt, SaveRest
  <1>4. ASSUME NEW c \in Consoles, LetGo(c) PROVE CrossedInv'
    BY <1>0, <1>4 DEF CrossedInv, LetGo, SaveOver, SaveRest
  <1>5. ASSUME NEW c \in Consoles, Refused(c) PROVE CrossedInv'
    BY <1>0, <1>5 DEF CrossedInv, Refused, SaveOver, SaveRest
  <1>6. ASSUME NEW c \in Consoles, Added(c) PROVE CrossedInv'
    BY <1>0, <1>6 DEF CrossedInv, AuthorInv, EndedInv, BusyInv, PendingInv, Added, SaveOver, SaveRest
  <1>7. ASSUME NEW c \in Consoles, NEW t \in Threads, New(c, t) PROVE CrossedInv'
    BY <1>0, <1>7 DEF CrossedInv, New, Opened
  <1>8. ASSUME NEW c \in Consoles, NEW t \in Threads, Loaded(c, t) PROVE CrossedInv'
    BY <1>0, <1>8 DEF CrossedInv, Loaded, Opened
  <1>9. ASSUME NEW c \in Consoles, NEW t \in Threads, Emptied(c, t) PROVE CrossedInv'
    BY <1>0, <1>9 DEF CrossedInv, AuthorInv, EndedInv, BusyInv, PendingInv, Emptied
  <1>10. ASSUME NEW c \in Consoles, Removed(c) PROVE CrossedInv'
    BY <1>0, <1>10 DEF CrossedInv, Removed
  <1>11. ASSUME MemoryTick PROVE CrossedInv'
    BY <1>0, <1>11 DEF CrossedInv, MemoryTick
  <1>12. ASSUME UNCHANGED memoryVars PROVE CrossedInv'
    BY <1>0, <1>12 DEF CrossedInv, memoryVars
  <1> QED
    BY <1>1, <1>2, <1>3, <1>4, <1>5, <1>6, <1>7, <1>8, <1>9, <1>10, <1>11, <1>12 DEF MemoryActs

\* In a thread for oneself, turns are saved one by one.
LEMMA TurnByTurnNext ==
  ASSUME ConversationInv, MemoryActs
  PROVE  TurnByTurn'
  <1> USE Numbers DEF ValuesAre
  <1>0. ValuesAre /\ TurnByTurn /\ AuthorInv /\ EndedInv /\ BusyInv /\ PendingInv /\ SharedInv
    BY ValuesHold DEF ConversationInv
  <1>1. ASSUME NEW c \in Consoles, Said(c) PROVE TurnByTurn'
    <2>1. \A m \in 1..said : author[m].thread = thread[c] /\ thread[c] \notin shared => m \in ended
      <3> SUFFICES ASSUME NEW m \in 1..said, author[m].thread = thread[c], m \notin ended
                   PROVE  thread[c] \in shared
        OBVIOUS
      <3> DEFINE d == author[m].by
      <3>1. d \in Consoles /\ saving[d].step # "none" /\ saving[d].msg = m
        BY <1>0 DEF AuthorInv, PendingInv
      <3>2. d # c /\ thread[d] = thread[c] /\ thread[c] \in Threads
        BY <1>0, <1>1, <3>1 DEF Said, Idle, BusyInv
      <3> QED
        BY <1>0, <3>1, <3>2 DEF SharedInv
    <2>2. said' = said + 1 /\ author'[said + 1].thread = thread[c] /\ UNCHANGED <<ended, shared>>
          /\ \A n \in 1..said : author'[n] = author[n]
      BY <1>0, <1>1 DEF Said
    <2> SUFFICES ASSUME NEW m \in 1..said', NEW n \in 1..said', m < n,
                        author'[m].thread = author'[n].thread, author'[m].thread \notin shared
                 PROVE  m \in ended
      BY <2>2 DEF TurnByTurn
    <2>3. CASE n = said + 1
      BY <1>0, <2>1, <2>2, <2>3
    <2>4. CASE n # said + 1
      BY <1>0, <2>2, <2>4 DEF TurnByTurn
    <2> QED
      BY <2>3, <2>4
  <1>2. ASSUME NEW c \in Consoles, LookedUp(c) PROVE TurnByTurn'
    BY <1>0, <1>2 DEF TurnByTurn, LookedUp, SaveAt, SaveRest
  <1>3. ASSUME NEW c \in Consoles, Written(c) PROVE TurnByTurn'
    BY <1>0, <1>3 DEF TurnByTurn, Written, SaveAt, SaveRest
  <1>4. ASSUME NEW c \in Consoles, LetGo(c) PROVE TurnByTurn'
    BY <1>0, <1>4 DEF TurnByTurn, LetGo, SaveOver, SaveRest
  <1>5. ASSUME NEW c \in Consoles, Refused(c) PROVE TurnByTurn'
    BY <1>0, <1>5 DEF TurnByTurn, Refused, SaveOver, SaveRest
  <1>6. ASSUME NEW c \in Consoles, Added(c) PROVE TurnByTurn'
    BY <1>0, <1>6 DEF TurnByTurn, Added, SaveOver, SaveRest
  <1>7. ASSUME NEW c \in Consoles, NEW t \in Threads, New(c, t) PROVE TurnByTurn'
    BY <1>0, <1>7 DEF TurnByTurn, New, Opened
  <1>8. ASSUME NEW c \in Consoles, NEW t \in Threads, Loaded(c, t) PROVE TurnByTurn'
    BY <1>0, <1>8 DEF TurnByTurn, Loaded, Opened
  <1>9. ASSUME NEW c \in Consoles, NEW t \in Threads, Emptied(c, t) PROVE TurnByTurn'
    BY <1>0, <1>9 DEF TurnByTurn, Emptied
  <1>10. ASSUME NEW c \in Consoles, Removed(c) PROVE TurnByTurn'
    BY <1>0, <1>10 DEF TurnByTurn, Removed
  <1>11. ASSUME MemoryTick PROVE TurnByTurn'
    BY <1>0, <1>11 DEF TurnByTurn, MemoryTick
  <1>12. ASSUME UNCHANGED memoryVars PROVE TurnByTurn'
    BY <1>0, <1>12 DEF TurnByTurn, memoryVars
  <1> QED
    BY <1>1, <1>2, <1>3, <1>4, <1>5, <1>6, <1>7, <1>8, <1>9, <1>10, <1>11, <1>12 DEF MemoryActs

\* No row is ahead of the clock or the ids.
LEMMA AheadInvNext ==
  ASSUME ConversationInv, MemoryActs
  PROVE  AheadInv'
  <1> USE Numbers DEF ValuesAre
  <1>0. ValuesAre /\ AheadInv /\ AuthorInv /\ EndedInv
    BY ValuesHold DEF ConversationInv
  <1>1. ASSUME NEW c \in Consoles, Said(c) PROVE AheadInv'
    BY <1>0, <1>1 DEF AheadInv, Said
  <1>2. ASSUME NEW c \in Consoles, LookedUp(c) PROVE AheadInv'
    BY <1>0, <1>2 DEF AheadInv, LookedUp, SaveAt, SaveRest
  <1>3. ASSUME NEW c \in Consoles, Written(c) PROVE AheadInv'
    BY <1>0, <1>3 DEF AheadInv, Written, SaveAt, SaveRest
  <1>4. ASSUME NEW c \in Consoles, LetGo(c) PROVE AheadInv'
    BY <1>0, <1>4 DEF AheadInv, LetGo, SaveOver, SaveRest
  <1>5. ASSUME NEW c \in Consoles, Refused(c) PROVE AheadInv'
    BY <1>0, <1>5 DEF AheadInv, Refused, SaveOver, SaveRest
  <1>6. ASSUME NEW c \in Consoles, Added(c) PROVE AheadInv'
    BY <1>0, <1>6 DEF AheadInv, Added, SaveOver, SaveRest
  <1>7. ASSUME NEW c \in Consoles, NEW t \in Threads, New(c, t) PROVE AheadInv'
    BY <1>0, <1>7 DEF AheadInv, New, Opened
  <1>8. ASSUME NEW c \in Consoles, NEW t \in Threads, Loaded(c, t) PROVE AheadInv'
    BY <1>0, <1>8 DEF AheadInv, Loaded, Opened
  <1>9. ASSUME NEW c \in Consoles, NEW t \in Threads, Emptied(c, t) PROVE AheadInv'
    BY <1>0, <1>9 DEF AheadInv, Emptied
  <1>10. ASSUME NEW c \in Consoles, Removed(c) PROVE AheadInv'
    BY <1>0, <1>10 DEF AheadInv, Removed
  <1>11. ASSUME MemoryTick PROVE AheadInv'
    BY <1>0, <1>11 DEF AheadInv, MemoryTick
  <1>12. ASSUME UNCHANGED memoryVars PROVE AheadInv'
    BY <1>0, <1>12 DEF AheadInv, memoryVars
  <1> QED
    BY <1>1, <1>2, <1>3, <1>4, <1>5, <1>6, <1>7, <1>8, <1>9, <1>10, <1>11, <1>12 DEF MemoryActs

\* Rows of a thread for oneself are read in the order said.
LEMMA OrderInvNext ==
  ASSUME ConversationInv, MemoryActs
  PROVE  OrderInv'
  <1> USE Numbers DEF ValuesAre
  <1>0. ValuesAre /\ OrderInv /\ AuthorInv /\ EndedInv /\ BusyInv /\ TurnByTurn /\ AheadInv
    BY ValuesHold DEF ConversationInv
  <1>1. ASSUME NEW c \in Consoles, Said(c) PROVE OrderInv'
    BY <1>0, <1>1 DEF OrderInv, AuthorInv, EndedInv, BusyInv, TurnByTurn, AheadInv, ReadBefore, Said
  <1>2. ASSUME NEW c \in Consoles, LookedUp(c) PROVE OrderInv'
    BY <1>0, <1>2 DEF OrderInv, ReadBefore, LookedUp, SaveAt, SaveRest
  <1>3. ASSUME NEW c \in Consoles, Written(c) PROVE OrderInv'
    BY <1>0, <1>3 DEF OrderInv, ReadBefore, Written, SaveAt, SaveRest
  <1>4. ASSUME NEW c \in Consoles, LetGo(c) PROVE OrderInv'
    BY <1>0, <1>4 DEF OrderInv, ReadBefore, LetGo, SaveOver, SaveRest
  <1>5. ASSUME NEW c \in Consoles, Refused(c) PROVE OrderInv'
    BY <1>0, <1>5 DEF OrderInv, ReadBefore, Refused, SaveOver, SaveRest
  <1>6. ASSUME NEW c \in Consoles, Added(c) PROVE OrderInv'
    <2> DEFINE k == saving[c].msg
    <2>1. k \in 1..said /\ k \in Msgs /\ k \notin ended /\ k \notin messages /\ messages' = messages \cup {k}
      BY <1>0, <1>6 DEF Added, SaveRest, BusyInv, EndedInv
    <2>2. /\ UNCHANGED <<memBackend, author, shared>> /\ \A m \in messages : order'[m] = order[m]
          /\ order'[k] = IF memBackend = "sqlite" THEN lastId + 1 ELSE wall
      BY <1>0, <1>6, <2>1 DEF Added, SaveRest
    <2> SUFFICES ASSUME NEW m \in messages', NEW n \in messages', m < n,
                        author[m].thread = author[n].thread, author[m].thread \notin shared
                 PROVE  order'[m] < order'[n] \/ (memBackend = "spanner" /\ order'[m] = order'[n])
      BY <2>2 DEF OrderInv, ReadBefore
    <2>3. m # k
      BY <1>0, <2>1 DEF TurnByTurn, EndedInv
    <2>4. CASE n = k
      <3>1. IF memBackend = "sqlite" THEN order[m] <= lastId ELSE order[m] <= wall
        BY <1>0, <2>1, <2>3 DEF AheadInv
      <3>2. order[m] \in Nat /\ memBackend \in {"sqlite", "spanner"}
        BY <1>0, <2>1, <2>3 DEF ConversationInv, MemoryTypeOK
      <3>3. /\ lastId \in Nat /\ wall \in Nat /\ memBackend' = memBackend
            /\ order'[m] = order[m] /\ order'[n] = IF memBackend = "sqlite" THEN lastId + 1 ELSE wall
        BY <1>0, <2>1, <2>2, <2>3, <2>4 DEF ConversationInv, MemoryTypeOK
      <3>4. CASE memBackend = "sqlite"
        BY <3>1, <3>2, <3>3, <3>4
      <3>5. CASE memBackend = "spanner"
        BY <3>1, <3>2, <3>3, <3>5
      <3> QED
        BY <3>2, <3>4, <3>5
    <2>5. CASE n # k
      BY <1>0, <2>1, <2>2, <2>3, <2>5 DEF OrderInv, ReadBefore
    <2> QED
      BY <2>4, <2>5
  <1>7. ASSUME NEW c \in Consoles, NEW t \in Threads, New(c, t) PROVE OrderInv'
    BY <1>0, <1>7 DEF OrderInv, ReadBefore, New, Opened
  <1>8. ASSUME NEW c \in Consoles, NEW t \in Threads, Loaded(c, t) PROVE OrderInv'
    BY <1>0, <1>8 DEF OrderInv, ReadBefore, Loaded, Opened
  <1>9. ASSUME NEW c \in Consoles, NEW t \in Threads, Emptied(c, t) PROVE OrderInv'
    BY <1>0, <1>9 DEF OrderInv, ReadBefore, Emptied
  <1>10. ASSUME NEW c \in Consoles, Removed(c) PROVE OrderInv'
    BY <1>0, <1>10 DEF OrderInv, ReadBefore, Removed
  <1>11. ASSUME MemoryTick PROVE OrderInv'
    BY <1>0, <1>11 DEF OrderInv, ReadBefore, MemoryTick
  <1>12. ASSUME UNCHANGED memoryVars PROVE OrderInv'
    BY <1>0, <1>12 DEF OrderInv, ReadBefore, memoryVars
  <1> QED
    BY <1>1, <1>2, <1>3, <1>4, <1>5, <1>6, <1>7, <1>8, <1>9, <1>10, <1>11, <1>12 DEF MemoryActs

\* The screen shows every row of a thread for oneself.
LEMMA ScreenHasRowsNext ==
  ASSUME ConversationInv, MemoryActs
  PROVE  ScreenHasRows'
  <1> USE Numbers DEF ValuesAre
  <1>0. ValuesAre /\ ScreenHasRows /\ AuthorInv /\ EndedInv /\ BusyInv /\ DialogInv /\ SharedInv
    BY ValuesHold DEF ConversationInv
  <1>1. ASSUME NEW c \in Consoles, Said(c) PROVE ScreenHasRows'
    BY <1>0, <1>1 DEF ScreenHasRows, AuthorInv, EndedInv, BusyInv, DialogInv, SharedInv, OwnThread, Said
  <1>2. ASSUME NEW c \in Consoles, LookedUp(c) PROVE ScreenHasRows'
    BY <1>0, <1>2 DEF ScreenHasRows, OwnThread, LookedUp, SaveAt, SaveRest
  <1>3. ASSUME NEW c \in Consoles, Written(c) PROVE ScreenHasRows'
    BY <1>0, <1>3 DEF ScreenHasRows, OwnThread, Written, SaveAt, SaveRest
  <1>4. ASSUME NEW c \in Consoles, LetGo(c) PROVE ScreenHasRows'
    BY <1>0, <1>4 DEF ScreenHasRows, OwnThread, LetGo, SaveOver, SaveRest
  <1>5. ASSUME NEW c \in Consoles, Refused(c) PROVE ScreenHasRows'
    BY <1>0, <1>5 DEF ScreenHasRows, OwnThread, Refused, SaveOver, SaveRest
  <1>6. ASSUME NEW c \in Consoles, Added(c) PROVE ScreenHasRows'
    BY <1>0, <1>6 DEF ScreenHasRows, AuthorInv, EndedInv, BusyInv, DialogInv, SharedInv, OwnThread, Added, SaveOver, SaveRest
  <1>7. ASSUME NEW c \in Consoles, NEW t \in Threads, New(c, t) PROVE ScreenHasRows'
    BY <1>0, <1>7 DEF ScreenHasRows, AuthorInv, EndedInv, BusyInv, DialogInv, SharedInv, OwnThread, New, Opened, Spoken, Idle
  <1>8. ASSUME NEW c \in Consoles, NEW t \in Threads, Loaded(c, t) PROVE ScreenHasRows'
    BY <1>0, <1>8 DEF ScreenHasRows, OwnThread, Loaded, Opened
  <1>9. ASSUME NEW c \in Consoles, NEW t \in Threads, Emptied(c, t) PROVE ScreenHasRows'
    BY <1>0, <1>9 DEF ScreenHasRows, OwnThread, Emptied, LeavesThread, Idle
  <1>10. ASSUME NEW c \in Consoles, Removed(c) PROVE ScreenHasRows'
    BY <1>0, <1>10 DEF ScreenHasRows, OwnThread, Removed, LeavesThread
  <1>11. ASSUME MemoryTick PROVE ScreenHasRows'
    BY <1>0, <1>11 DEF ScreenHasRows, OwnThread, MemoryTick
  <1>12. ASSUME UNCHANGED memoryVars PROVE ScreenHasRows'
    BY <1>0, <1>12 DEF ScreenHasRows, OwnThread, memoryVars
  <1> QED
    BY <1>1, <1>2, <1>3, <1>4, <1>5, <1>6, <1>7, <1>8, <1>9, <1>10, <1>11, <1>12 DEF MemoryActs

\* What it shows was stored or refused, or is under way.
LEMMA ScreenIsKeptNext ==
  ASSUME ConversationInv, MemoryActs
  PROVE  ScreenIsKept'
  <1> USE Numbers DEF ValuesAre
  <1>0. ValuesAre /\ ScreenIsKept /\ AuthorInv /\ EndedInv /\ BusyInv /\ DialogInv /\ SharedInv /\ FoundGone /\ FoundLate
    BY ValuesHold DEF ConversationInv
  <1>1. ASSUME NEW c \in Consoles, Said(c) PROVE ScreenIsKept'
    BY <1>0, <1>1 DEF ScreenIsKept, AuthorInv, EndedInv, BusyInv, DialogInv, SharedInv, FoundGone, FoundLate, OwnThread, Said
  <1>2. ASSUME NEW c \in Consoles, LookedUp(c) PROVE ScreenIsKept'
    BY <1>0, <1>2 DEF ScreenIsKept, OwnThread, LookedUp, SaveAt, SaveRest
  <1>3. ASSUME NEW c \in Consoles, Written(c) PROVE ScreenIsKept'
    BY <1>0, <1>3 DEF ScreenIsKept, OwnThread, Written, SaveAt, SaveRest
  <1>4. ASSUME NEW c \in Consoles, LetGo(c) PROVE ScreenIsKept'
    BY <1>0, <1>4 DEF ScreenIsKept, AuthorInv, EndedInv, BusyInv, DialogInv, SharedInv, FoundGone, FoundLate, OwnThread, LetGo, SaveOver, SaveRest, Here
  <1>5. ASSUME NEW c \in Consoles, Refused(c) PROVE ScreenIsKept'
    BY <1>0, <1>5 DEF ScreenIsKept, OwnThread, Refused, SaveOver, SaveRest
  <1>6. ASSUME NEW c \in Consoles, Added(c) PROVE ScreenIsKept'
    BY <1>0, <1>6 DEF ScreenIsKept, OwnThread, Added, SaveOver, SaveRest
  <1>7. ASSUME NEW c \in Consoles, NEW t \in Threads, New(c, t) PROVE ScreenIsKept'
    BY <1>0, <1>7 DEF ScreenIsKept, OwnThread, New, Opened
  <1>8. ASSUME NEW c \in Consoles, NEW t \in Threads, Loaded(c, t) PROVE ScreenIsKept'
    BY <1>0, <1>8 DEF ScreenIsKept, OwnThread, Loaded, Opened
  <1>9. ASSUME NEW c \in Consoles, NEW t \in Threads, Emptied(c, t) PROVE ScreenIsKept'
    BY <1>0, <1>9 DEF ScreenIsKept, AuthorInv, EndedInv, BusyInv, DialogInv, SharedInv, FoundGone, FoundLate, OwnThread, Emptied, LeavesThread, Idle
  <1>10. ASSUME NEW c \in Consoles, Removed(c) PROVE ScreenIsKept'
    BY <1>0, <1>10 DEF ScreenIsKept, OwnThread, Removed, LeavesThread
  <1>11. ASSUME MemoryTick PROVE ScreenIsKept'
    BY <1>0, <1>11 DEF ScreenIsKept, OwnThread, MemoryTick
  <1>12. ASSUME UNCHANGED memoryVars PROVE ScreenIsKept'
    BY <1>0, <1>12 DEF ScreenIsKept, OwnThread, memoryVars
  <1> QED
    BY <1>1, <1>2, <1>3, <1>4, <1>5, <1>6, <1>7, <1>8, <1>9, <1>10, <1>11, <1>12 DEF MemoryActs

\* Messages without a thread were crossed by a delete.
LEMMA OrphansOnlyByDeleteNext ==
  ASSUME ConversationInv, MemoryActs
  PROVE  OrphansOnlyByDelete'
  <1> USE Numbers DEF ValuesAre
  <1>0. ValuesAre /\ OrphansOnlyByDelete /\ AuthorInv /\ EndedInv /\ BusyInv /\ AddGone /\ CrossedInv
    BY ValuesHold DEF ConversationInv
  <1>1. ASSUME NEW c \in Consoles, Said(c) PROVE OrphansOnlyByDelete'
    BY <1>0, <1>1 DEF OrphansOnlyByDelete, AuthorInv, EndedInv, BusyInv, AddGone, CrossedInv, Said
  <1>2. ASSUME NEW c \in Consoles, LookedUp(c) PROVE OrphansOnlyByDelete'
    BY <1>0, <1>2 DEF OrphansOnlyByDelete, LookedUp, SaveAt, SaveRest
  <1>3. ASSUME NEW c \in Consoles, Written(c) PROVE OrphansOnlyByDelete'
    BY <1>0, <1>3 DEF OrphansOnlyByDelete, AuthorInv, EndedInv, BusyInv, AddGone, CrossedInv, Written, SaveAt, SaveRest
  <1>4. ASSUME NEW c \in Consoles, LetGo(c) PROVE OrphansOnlyByDelete'
    BY <1>0, <1>4 DEF OrphansOnlyByDelete, LetGo, SaveOver, SaveRest
  <1>5. ASSUME NEW c \in Consoles, Refused(c) PROVE OrphansOnlyByDelete'
    BY <1>0, <1>5 DEF OrphansOnlyByDelete, Refused, SaveOver, SaveRest
  <1>6. ASSUME NEW c \in Consoles, Added(c) PROVE OrphansOnlyByDelete'
    BY <1>0, <1>6 DEF OrphansOnlyByDelete, AuthorInv, EndedInv, BusyInv, AddGone, CrossedInv, Added, SaveOver, SaveRest
  <1>7. ASSUME NEW c \in Consoles, NEW t \in Threads, New(c, t) PROVE OrphansOnlyByDelete'
    BY <1>0, <1>7 DEF OrphansOnlyByDelete, New, Opened
  <1>8. ASSUME NEW c \in Consoles, NEW t \in Threads, Loaded(c, t) PROVE OrphansOnlyByDelete'
    BY <1>0, <1>8 DEF OrphansOnlyByDelete, Loaded, Opened
  <1>9. ASSUME NEW c \in Consoles, NEW t \in Threads, Emptied(c, t) PROVE OrphansOnlyByDelete'
    BY <1>0, <1>9 DEF OrphansOnlyByDelete, AuthorInv, EndedInv, BusyInv, AddGone, CrossedInv, Emptied
  <1>10. ASSUME NEW c \in Consoles, Removed(c) PROVE OrphansOnlyByDelete'
    BY <1>0, <1>10 DEF OrphansOnlyByDelete, AuthorInv, EndedInv, BusyInv, AddGone, CrossedInv, Removed
  <1>11. ASSUME MemoryTick PROVE OrphansOnlyByDelete'
    BY <1>0, <1>11 DEF OrphansOnlyByDelete, MemoryTick
  <1>12. ASSUME UNCHANGED memoryVars PROVE OrphansOnlyByDelete'
    BY <1>0, <1>12 DEF OrphansOnlyByDelete, memoryVars
  <1> QED
    BY <1>1, <1>2, <1>3, <1>4, <1>5, <1>6, <1>7, <1>8, <1>9, <1>10, <1>11, <1>12 DEF MemoryActs

\* A turn is lost only in a shared thread, or refused.
LEMMA LostOnlyWhenSharedNext ==
  ASSUME ConversationInv, MemoryActs
  PROVE  LostOnlyWhenShared'
  <1> USE Numbers DEF ValuesAre
  <1>0. ValuesAre /\ LostOnlyWhenShared /\ AuthorInv /\ EndedInv /\ BusyInv /\ FoundGone /\ FoundLate
    BY ValuesHold DEF ConversationInv
  <1>1. ASSUME NEW c \in Consoles, Said(c) PROVE LostOnlyWhenShared'
    BY <1>0, <1>1 DEF LostOnlyWhenShared, AuthorInv, EndedInv, BusyInv, FoundGone, FoundLate, Said
  <1>2. ASSUME NEW c \in Consoles, LookedUp(c) PROVE LostOnlyWhenShared'
    BY <1>0, <1>2 DEF LostOnlyWhenShared, LookedUp, SaveAt, SaveRest
  <1>3. ASSUME NEW c \in Consoles, Written(c) PROVE LostOnlyWhenShared'
    BY <1>0, <1>3 DEF LostOnlyWhenShared, Written, SaveAt, SaveRest
  <1>4. ASSUME NEW c \in Consoles, LetGo(c) PROVE LostOnlyWhenShared'
    BY <1>0, <1>4 DEF LostOnlyWhenShared, AuthorInv, EndedInv, BusyInv, FoundGone, FoundLate, LetGo, SaveOver, SaveRest, Here
  <1>5. ASSUME NEW c \in Consoles, Refused(c) PROVE LostOnlyWhenShared'
    BY <1>0, <1>5 DEF LostOnlyWhenShared, Refused, SaveOver, SaveRest
  <1>6. ASSUME NEW c \in Consoles, Added(c) PROVE LostOnlyWhenShared'
    BY <1>0, <1>6 DEF LostOnlyWhenShared, Added, SaveOver, SaveRest
  <1>7. ASSUME NEW c \in Consoles, NEW t \in Threads, New(c, t) PROVE LostOnlyWhenShared'
    BY <1>0, <1>7 DEF LostOnlyWhenShared, New, Opened
  <1>8. ASSUME NEW c \in Consoles, NEW t \in Threads, Loaded(c, t) PROVE LostOnlyWhenShared'
    BY <1>0, <1>8 DEF LostOnlyWhenShared, Loaded, Opened
  <1>9. ASSUME NEW c \in Consoles, NEW t \in Threads, Emptied(c, t) PROVE LostOnlyWhenShared'
    BY <1>0, <1>9 DEF LostOnlyWhenShared, Emptied
  <1>10. ASSUME NEW c \in Consoles, Removed(c) PROVE LostOnlyWhenShared'
    BY <1>0, <1>10 DEF LostOnlyWhenShared, Removed
  <1>11. ASSUME MemoryTick PROVE LostOnlyWhenShared'
    BY <1>0, <1>11 DEF LostOnlyWhenShared, MemoryTick
  <1>12. ASSUME UNCHANGED memoryVars PROVE LostOnlyWhenShared'
    BY <1>0, <1>12 DEF LostOnlyWhenShared, memoryVars
  <1> QED
    BY <1>1, <1>2, <1>3, <1>4, <1>5, <1>6, <1>7, <1>8, <1>9, <1>10, <1>11, <1>12 DEF MemoryActs

\* The types.
LEMMA MemoryTypesNext ==
  ASSUME MemoryTypeOK, AuthorInv, BusyInv, [MemoryNext]_memoryVars
  PROVE  MemoryTypeOK'
  <1> USE Numbers DEF MemoryTypeOK
  <1>1. ASSUME NEW c \in Consoles, NEW role \in {"user", "assistant"}, SaveMessage(c, role) PROVE MemoryTypeOK'
    <2> DEFINE m == said + 1
               s == [step |-> "lookup", msg |-> m, found |-> FALSE]
               a == [by |-> c, thread |-> thread[c], role |-> role]
    <2>1. m \in Msgs /\ m \in 0..MaxTurns /\ s \in Savings
          /\ a \in [by : Consoles \cup {"none"}, thread : Threads \cup {NoThread}, role : {"none", "user", "assistant"}]
      BY <1>1 DEF SaveMessage, Savings
    <2>2. saving' \in [Consoles -> Savings]
      BY <1>1, <2>1 DEF SaveMessage, Savings
    <2>3. author' \in [Msgs -> [by : Consoles \cup {"none"}, thread : Threads \cup {NoThread}, role : {"none", "user", "assistant"}]]
      BY <1>1, <2>1 DEF SaveMessage
    <2> QED
      BY <1>1, <2>1, <2>2, <2>3 DEF SaveMessage, Savings
  <1>2. ASSUME NEW c \in Consoles, UpsertLookup(c) \/ UpsertWrite(c) \/ add_message(c) PROVE MemoryTypeOK'
    <2>1. saving[c].step # "none" /\ UNCHANGED <<memBackend, wall, said, author, thread, dialog, deleting, shared, crossed>>
      BY <1>2 DEF UpsertLookup, UpsertWrite, add_message
    <2>2. saving[c].msg \in 1..said /\ saving[c].msg \in Msgs /\ author[saving[c].msg].thread \in Threads
      BY <2>1 DEF AuthorInv, BusyInv
    <2>3. saving' \in [Consoles -> Savings] /\ ended' \subseteq ended \cup {saving[c].msg}
          /\ refused' \subseteq refused \cup {saving[c].msg}
      <3>1. CASE UpsertLookup(c)
        BY <3>1, Lookups DEF SaveAt, SaveOver
      <3>2. CASE UpsertWrite(c)
        BY <2>2, <3>2, Writes DEF SaveAt, SaveOver
      <3>3. CASE add_message(c)
        BY <2>2, <3>3, Adds DEF SaveAt, SaveOver
      <3> QED
        BY <1>2, <3>1, <3>2, <3>3
    <2>4. title' \in [Threads -> {"absent", "untitled", "titled"}]
      BY <1>2, <2>2, Writes DEF UpsertLookup, add_message
    <2>5. messages' \subseteq Msgs /\ lastId' \in Nat /\ order' \in [Msgs -> Nat]
      BY <1>2, <2>2, Adds DEF UpsertLookup, UpsertWrite
    <2> QED
      BY <2>1, <2>2, <2>3, <2>4, <2>5 DEF Savings
  <1>3. ASSUME NEW c \in Consoles, new_thread(c) PROVE MemoryTypeOK'
    BY <1>3 DEF new_thread
  <1>4. ASSUME NEW c \in Consoles, NEW t \in Threads, load_thread(c, t) PROVE MemoryTypeOK'
    BY <1>4 DEF load_thread, get_messages
  <1>5. ASSUME NEW c \in Consoles, NEW t \in Threads, DeleteMessages(c, t) PROVE MemoryTypeOK'
    <2>1. messages' \subseteq Msgs /\ shared' \subseteq Threads /\ crossed' \subseteq Msgs
          /\ UNCHANGED <<memBackend, order, lastId, wall, said, author, saving, ended, refused>>
      BY <1>5 DEF DeleteMessages, Without, Crossing
    <2>2. CASE memBackend = "sqlite"
      <3>1. /\ title' = [title EXCEPT ![t] = "absent"]
            /\ thread' = [thread EXCEPT ![c] = IF @ = t THEN NoThread ELSE @]
            /\ dialog' = [dialog EXCEPT ![c] = IF thread[c] = t THEN {} ELSE @]
            /\ UNCHANGED deleting
        BY <1>5, <2>2 DEF DeleteMessages
      <3> QED
        BY <2>1, <3>1
    <2>3. CASE memBackend # "sqlite"
      <3>1. deleting' = [deleting EXCEPT ![c] = t] /\ UNCHANGED <<title, thread, dialog>>
        BY <1>5, <2>3 DEF DeleteMessages
      <3> QED
        BY <2>1, <3>1
    <2> QED
      BY <2>2, <2>3
  <1>6. ASSUME NEW c \in Consoles, DeleteThreadRow(c) PROVE MemoryTypeOK'
    <2> DEFINE t == deleting[c]
    <2>1. t \in Threads
      BY <1>6 DEF DeleteThreadRow
    <2>2. /\ deleting' = [deleting EXCEPT ![c] = NoThread]
          /\ title' = [title EXCEPT ![t] = "absent"] \/ UNCHANGED title
          /\ thread' = [thread EXCEPT ![c] = IF @ = t THEN NoThread ELSE @] \/ UNCHANGED thread
          /\ dialog' = [dialog EXCEPT ![c] = IF thread[c] = t THEN {} ELSE @] \/ UNCHANGED dialog
          /\ shared' = shared \/ shared' = shared \cup {t}
          /\ UNCHANGED <<memBackend, messages, order, lastId, wall, said, author, saving, ended, refused, crossed>>
      BY <1>6 DEF DeleteThreadRow
    <2>3. title' \in [Threads -> {"absent", "untitled", "titled"}]
      BY <2>2
    <2>4. thread' \in [Consoles -> Threads \cup {NoThread}] /\ dialog' \in [Consoles -> SUBSET Msgs]
      BY <2>2
    <2>5. deleting' \in [Consoles -> Threads \cup {NoThread}] /\ shared' \subseteq Threads
      BY <2>1, <2>2
    <2> QED
      BY <2>2, <2>3, <2>4, <2>5
  <1>7. CASE MemoryTick
    BY <1>7 DEF MemoryTick
  <1>8. CASE UNCHANGED memoryVars
    BY <1>8 DEF memoryVars
  <1> QED
    BY <1>1, <1>2, <1>3, <1>4, <1>5, <1>6, <1>7, <1>8 DEF MemoryNext

\* At first nothing was said.
LEMMA ConversationInitInv == MemoryInit => ConversationInv
  <1> SUFFICES ASSUME MemoryInit PROVE ConversationInv
    OBVIOUS
  <1> USE Numbers DEF MemoryInit
  <1>1. MemoryTypeOK
    BY DEF MemoryTypeOK, Resting
  <1>2. AuthorInv /\ EndedInv /\ BusyInv /\ PendingInv /\ ListedInv /\ DialogInv
    BY DEF AuthorInv, EndedInv, BusyInv, PendingInv, ListedInv, DialogInv, Resting
  <1>3. SharedInv /\ FoundGone /\ FoundLate /\ AddGone /\ CrossedInv /\ TurnByTurn /\ AheadInv /\ OrderInv
    BY DEF SharedInv, FoundGone, FoundLate, AddGone, CrossedInv, TurnByTurn, AheadInv, OrderInv, Resting
  <1>4. ScreenHasRows /\ ScreenIsKept /\ OrphansOnlyByDelete /\ LostOnlyWhenShared
    BY DEF ScreenHasRows, ScreenIsKept, OrphansOnlyByDelete, LostOnlyWhenShared
  <1> QED
    BY <1>1, <1>2, <1>3, <1>4 DEF ConversationInv

\* The invariant is inductive.
LEMMA ConversationInvNext == ConversationInv /\ [MemoryNext]_memoryVars => ConversationInv'
  <1> SUFFICES ASSUME ConversationInv, [MemoryNext]_memoryVars PROVE ConversationInv'
    OBVIOUS
  <1>1. MemoryTypeOK /\ AuthorInv /\ BusyInv
    BY DEF ConversationInv
  <1>2. MemoryActs /\ MemoryTypeOK'
    BY <1>1, Steppings, MemoryTypesNext
  <1>3. AuthorInv' /\ EndedInv' /\ BusyInv' /\ PendingInv' /\ ListedInv' /\ DialogInv'
    BY <1>2, AuthorInvNext, EndedInvNext, BusyInvNext, PendingInvNext, ListedInvNext, DialogInvNext
  <1>4. SharedInv' /\ FoundGone' /\ FoundLate' /\ AddGone' /\ CrossedInv' /\ TurnByTurn' /\ AheadInv' /\ OrderInv'
    BY <1>2, SharedInvNext, FoundGoneNext, FoundLateNext, AddGoneNext, CrossedInvNext, TurnByTurnNext,
       AheadInvNext, OrderInvNext
  <1>5. ScreenHasRows' /\ ScreenIsKept' /\ OrphansOnlyByDelete' /\ LostOnlyWhenShared'
    BY <1>2, ScreenHasRowsNext, ScreenIsKeptNext, OrphansOnlyByDeleteNext, LostOnlyWhenSharedNext
  <1> QED
    BY <1>2, <1>3, <1>4, <1>5 DEF ConversationInv

\* A thread for oneself reads back as it was said.
LEMMA ScreenReadsBack == ConversationInv => ReadsBackAsSaid
  <1> SUFFICES ASSUME ConversationInv, NEW c \in Consoles, Free(c), thread[c] \notin shared \cup {NoThread}
               PROVE  /\ get_messages(thread[c]) = dialog[c] \ refused
                      /\ \A m, n \in get_messages(thread[c]) : m < n =>
                            ReadBefore(m, n) \/ (memBackend = "spanner" /\ order[m] = order[n])
    BY DEF ReadsBackAsSaid
  <1>1. Idle(c) /\ OwnThread(c)
    BY IdleOK DEF OwnThread, Idle, ConversationInv
  <1>2. \A m \in dialog[c] : m \in ended /\ author[m].thread = thread[c]
    BY <1>1 DEF ConversationInv, DialogInv, PendingInv, BusyInv, AuthorInv, Idle, SharedInv
  <1>3. \A m \in messages : m \notin refused
    BY DEF ConversationInv, EndedInv
  <1>4. get_messages(thread[c]) = dialog[c] \ refused
    BY <1>1, <1>2, <1>3 DEF ConversationInv, ScreenHasRows, ScreenIsKept, get_messages
  <1>5. \A m, n \in get_messages(thread[c]) : m < n =>
            ReadBefore(m, n) \/ (memBackend = "spanner" /\ order[m] = order[n])
    BY DEF ConversationInv, OrderInv, get_messages
  <1> QED
    BY <1>4, <1>5

\* Types (MemoryTypeOK): the tables, the saves and the screens keep their shape.
THEOREM MemoryTypes == MemorySpec => []MemoryTypeOK
  <1>1. ConversationInv => MemoryTypeOK
    BY DEF ConversationInv
  <1> QED
    BY <1>1, ConversationInitInv, ConversationInvNext, PTL DEF MemorySpec

\* memory_store.py: a conversation that no one else has open reads back as it was said,
\* turns are lost only where a thread is shared or a save refused, and messages without a
\* thread are left only by a delete, for every number of consoles, threads and turns.
THEOREM TurnsKept == MemorySpec => []TurnsAreKept
  <1>1. ConversationInv => TurnsAreKept
    BY ScreenReadsBack DEF ConversationInv, TurnsAreKept
  <1> QED
    BY <1>1, ConversationInitInv, ConversationInvNext, PTL DEF MemorySpec

(***************************************************************************)
(* The checkpoints.                                                        *)
(***************************************************************************)

\* The loop is at the latest checkpoint.
AtLatest ==
  /\ at \in Rows \cup {0} /\ (at = 0 => Rows = {})
  /\ \A i \in Rows : i <= at

\* A checkpoint's parent is the one right before it, or 0 for the first.
ParentIsBefore ==
  \A i \in Rows : /\ parent[i] \in Rows \cup {0} /\ parent[i] < i
                  /\ \A j \in Rows : j < i => j <= parent[i]

\* Each pending write is of a batch at least as long as its place, of the last one if
\* that is long enough, and there is a write for every place of every batch.
WritesTellBatches ==
  \A i \in Ids :
    /\ \A b \in 1..Len(batches[i]) : batches[i][b] <= Len(writes[i])
    /\ \A k \in 1..Len(writes[i]) :
         /\ writes[i][k] \in 1..Len(batches[i]) /\ k <= batches[i][writes[i][k]]
         /\ k <= batches[i][Len(batches[i])] => writes[i][k] = Len(batches[i])

CheckpointsInv == CheckpointsTypeOK /\ AtLatest /\ ParentIsBefore /\ WritesTellBatches

\* What the numbers are.
LEMMA IdNumbers == MaxCheckpoints \in Nat /\ MaxBatches \in Nat /\ MaxWrites \in Nat
                   /\ \A i \in Ids : i \in Nat /\ i > 0
  BY CheckpointAssumption DEF Ids

\* Lengths and elements of a sequence.
LEMMA SeqFacts ==
  ASSUME NEW T, NEW s \in Seq(T)
  PROVE  /\ Len(s) \in Nat /\ (s # <<>> => Len(s) > 0)
         /\ \A i \in 1..Len(s) : s[i] \in T
  BY EmptySeq, ElementOfSeq, LenProperties

\* The maximum of a set that has one.
LEMMA MaxIs == ASSUME NEW S, NEW x \in S, S \subseteq Int, \A y \in S : x >= y PROVE Max(S) = x
  <1>1. Max(S) \in S /\ \A y \in S : Max(S) >= y
    BY DEF Max
  <1>2. Max(S) \in Int /\ x \in Int /\ Max(S) >= x /\ x >= Max(S)
    BY <1>1
  <1> QED
    BY <1>2

\* The larger of two numbers.
LEMMA MaxOfTwo == ASSUME NEW a \in Nat, NEW b \in Nat PROVE Max({a, b}) = IF a >= b THEN a ELSE b
  <1>1. CASE a >= b
    BY <1>1, MaxIs
  <1>2. CASE b > a
    BY <1>2, MaxIs
  <1> QED
    BY <1>1, <1>2

\* At first there is no checkpoint.
LEMMA CheckpointsInitInv == CheckpointsInit => CheckpointsInv
  BY IdNumbers DEF CheckpointsInit, CheckpointsInv, CheckpointsTypeOK, AtLatest, ParentIsBefore,
     WritesTellBatches, Rows

\* A new checkpoint is the latest, and its parent the one before.
LEMMA PutInv == ASSUME CheckpointsInv, put PROVE CheckpointsInv'
  <1> USE IdNumbers DEF CheckpointsInv
  <1>1. PICK i \in Ids : i > at /\ parent' = [parent EXCEPT ![i] = at] /\ at' = i
    BY DEF put
  <1>2. at \in 0..MaxCheckpoints /\ at \in Rows \cup {0} /\ UNCHANGED <<writes, batches, looping>>
    BY DEF put, CheckpointsTypeOK, AtLatest
  <1>3. CheckpointsTypeOK'
    BY <1>1, <1>2 DEF CheckpointsTypeOK, Ids
  <1>4. i \notin Rows /\ Rows' = Rows \cup {i} /\ parent'[i] = at /\ \A j \in Rows : parent'[j] = parent[j]
    BY <1>1, <1>2 DEF CheckpointsTypeOK, Rows, AtLatest
  <1>5. AtLatest'
    BY <1>1, <1>4 DEF AtLatest, Rows
  <1>6. ParentIsBefore'
    BY <1>1, <1>2, <1>4 DEF ParentIsBefore, AtLatest, Rows
  <1> QED
    BY <1>2, <1>3, <1>5, <1>6 DEF WritesTellBatches

\* A batch of writes replaces those at its places, and leaves the longer rest.
LEMMA PutWritesInv == ASSUME CheckpointsInv, NEW n \in 1..MaxWrites, put_writes(n) PROVE CheckpointsInv'
  <1> USE IdNumbers DEF CheckpointsInv
  <1> DEFINE old == writes[at]
             v == Len(batches[at]) + 1
             m == IF n >= Len(old) THEN n ELSE Len(old)
             new == [k \in 1..m |-> IF k <= n THEN v ELSE old[k]]
  <1>1. at \in Ids /\ Len(batches[at]) < MaxBatches /\ batches[at] \in Seq(1..MaxWrites) /\ old \in Seq(1..MaxBatches)
    BY DEF put_writes, CheckpointsTypeOK, Ids
  <1>2. Len(old) \in Nat /\ v \in 1..MaxBatches /\ m \in Nat /\ \A k \in 1..Len(old) : old[k] \in 1..MaxBatches
    BY <1>1
  <1>3. new \in Seq(1..MaxBatches) /\ Len(new) = m
    BY <1>1, <1>2
  <1>4. /\ writes' = [writes EXCEPT ![at] = new]
        /\ batches' = [batches EXCEPT ![at] = Append(@, n)]
        /\ UNCHANGED <<parent, at, looping>>
    <2>1. n \in Nat /\ Max({n, Len(old)}) = m
      BY <1>2, MaxOfTwo
    <2> QED
      BY <2>1 DEF put_writes
  <1>5. CheckpointsTypeOK'
    BY <1>1, <1>3, <1>4 DEF CheckpointsTypeOK
  <1>6. AtLatest' /\ ParentIsBefore'
    BY <1>4 DEF AtLatest, ParentIsBefore, Rows
  <1>7. WritesTellBatches'
    <2> SUFFICES ASSUME NEW i \in Ids
                 PROVE  /\ \A b \in 1..Len(batches'[i]) : batches'[i][b] <= Len(writes'[i])
                        /\ \A k \in 1..Len(writes'[i]) :
                             /\ writes'[i][k] \in 1..Len(batches'[i]) /\ k <= batches'[i][writes'[i][k]]
                             /\ k <= batches'[i][Len(batches'[i])] => writes'[i][k] = Len(batches'[i])
      BY DEF WritesTellBatches
    <2>1. CASE i # at
      BY <1>4, <2>1 DEF WritesTellBatches, CheckpointsTypeOK
    <2>2. CASE i = at
      <3> DEFINE bs == batches[at]
      <3>1. writes'[i] = new /\ batches'[i] = Append(bs, n)
        BY <1>1, <1>4, <2>2 DEF CheckpointsTypeOK
      <3>2. /\ Len(Append(bs, n)) = v /\ Append(bs, n)[v] = n
            /\ \A b \in 1..Len(bs) : Append(bs, n)[b] = bs[b] /\ bs[b] \in 1..MaxWrites
        <4>1. \A b \in 1..Len(bs) : bs[b] \in 1..MaxWrites
          BY <1>1, SeqFacts
        <4>2. bs \in Seq(1..MaxWrites)
          BY <1>1
        <4>3. Len(Append(bs, n)) = Len(bs) + 1 /\ Append(bs, n)[Len(bs) + 1] = n
          BY <4>2, AppendProperties
        <4>4. \A b \in 1..Len(bs) : Append(bs, n)[b] = bs[b]
          BY <4>2, AppendProperties
        <4> QED
          BY <4>1, <4>3, <4>4
      <3>3. \A b \in 1..Len(bs) : bs[b] <= Len(old)
        BY <1>1 DEF WritesTellBatches
      <3>4. \A b \in 1..v : Append(bs, n)[b] <= m
        <4> SUFFICES ASSUME NEW b \in 1..v PROVE Append(bs, n)[b] <= m
          OBVIOUS
        <4>1. CASE b = v
          BY <1>2, <3>2, <4>1
        <4>2. CASE b # v
          <5>1. b \in 1..Len(bs)
            <6>1. Len(bs) \in Nat
              BY <1>1, SeqFacts
            <6> QED
              BY <4>2, <6>1
          <5>2. bs[b] \in Nat /\ bs[b] <= Len(old) /\ Append(bs, n)[b] = bs[b]
            BY <3>2, <3>3, <5>1
          <5> QED
            BY <1>2, <5>2
        <4> QED
          BY <4>1, <4>2
      <3>5. \A k \in 1..Len(old) : old[k] \in 1..Len(bs) /\ k <= bs[old[k]]
        BY <1>1 DEF WritesTellBatches
      <3>6. ASSUME NEW k \in 1..m
            PROVE  /\ new[k] \in 1..v /\ k <= Append(bs, n)[new[k]]
                   /\ k <= n => new[k] = v
        <4>1. CASE k <= n
          BY <1>1, <3>2, <4>1
        <4>2. CASE ~(k <= n)
          <5>1. k \in 1..Len(old) /\ new[k] = old[k]
            BY <1>2, <4>2
          <5> QED
            BY <1>1, <1>2, <3>2, <3>5, <4>2, <5>1
        <4> QED
          BY <4>1, <4>2
      <3> HIDE DEF new, m, v, bs
      <3> QED
        BY <1>3, <3>1, <3>2, <3>4, <3>6
    <2> QED
      BY <2>1, <2>2
  <1> QED
    BY <1>5, <1>6, <1>7

\* The latest checkpoint is the one the loop is at.
LEMMA LatestIs == ASSUME CheckpointsInv, Rows # {} PROVE Max(Rows) = at /\ at \in Rows
  <1>1. at \in Rows /\ at \in Nat /\ \A i \in Rows : i \in Nat /\ i <= at
    BY IdNumbers DEF CheckpointsInv, CheckpointsTypeOK, AtLatest, Rows
  <1>2. Rows \subseteq Int /\ \A i \in Rows : at >= i
    BY <1>1
  <1> QED
    BY <1>1, <1>2, MaxIs

\* The invariant is inductive.
LEMMA CheckpointsInvNext == CheckpointsInv /\ [CheckpointsNext]_checkpointVars => CheckpointsInv'
  <1> SUFFICES ASSUME CheckpointsInv, [CheckpointsNext]_checkpointVars PROVE CheckpointsInv'
    OBVIOUS
  <1>1. CASE CheckpointCrash \/ UNCHANGED checkpointVars
    BY <1>1 DEF CheckpointCrash, checkpointVars, CheckpointsInv, CheckpointsTypeOK, AtLatest,
       ParentIsBefore, WritesTellBatches, Rows
  <1>2. CASE CheckpointResume
    <2>1. at' = at
      BY <1>2, LatestIs DEF CheckpointResume, get_tuple, CheckpointsInv, AtLatest
    <2> QED
      BY <1>2, <2>1 DEF CheckpointResume, CheckpointsInv, CheckpointsTypeOK, AtLatest,
         ParentIsBefore, WritesTellBatches, Rows
  <1> QED
    BY <1>1, <1>2, PutInv, PutWritesInv DEF CheckpointsNext

\* How many of a set of numbers are at least i.
From(S, i) == {j \in S : j >= i}

\* Fewer numbers are at least a larger one.
LEMMA FromSmaller ==
  ASSUME NEW S, S \subseteq Nat, IsFiniteSet(S), NEW i \in S, NEW j \in S, i < j
  PROVE  Cardinality(From(S, j)) # Cardinality(From(S, i))
  <1>1. \A x \in S : x \in Nat /\ (x >= j => x >= i)
    OBVIOUS
  <1>2. From(S, j) \subseteq From(S, i)
    BY <1>1 DEF From
  <1>3. i \in From(S, i) /\ i \notin From(S, j)
    BY <1>1 DEF From
  <1>4. IsFiniteSet(From(S, i)) /\ From(S, j) \in SUBSET From(S, i) /\ From(S, j) # From(S, i)
    BY <1>2, <1>3, FS_Subset DEF From
  <1> QED
    BY <1>4, FS_Subset

\* So two numbers of a set have different places in it.
LEMMA PlacesDiffer ==
  ASSUME NEW S, S \subseteq Nat, IsFiniteSet(S), NEW i \in S, NEW j \in S,
         Cardinality(From(S, i)) = Cardinality(From(S, j))
  PROVE  i = j
  <1>1. i \in Nat /\ j \in Nat
    OBVIOUS
  <1>2. ~(i < j) /\ ~(j < i)
    BY FromSmaller
  <1> QED
    BY <1>1, <1>2

\* Counted from the greatest, a finite set of numbers has one for each place.
LEMMA EachPlace ==
  ASSUME NEW S, S \subseteq Nat, IsFiniteSet(S), NEW k \in 1..Cardinality(S)
  PROVE  \E i \in S : Cardinality(From(S, i)) = k
  <1> DEFINE n == Cardinality(S)
             place == [i \in S |-> Cardinality(From(S, i))]
  <1>1. n \in Nat
    BY FS_CardinalityType
  <1>2. \A i \in S : Cardinality(From(S, i)) \in 1..n
    <2> SUFFICES ASSUME NEW i \in S PROVE Cardinality(From(S, i)) \in 1..n
      OBVIOUS
    <2>1. From(S, i) \in SUBSET S /\ i \in From(S, i)
      BY DEF From
    <2>2. IsFiniteSet(From(S, i)) /\ Cardinality(From(S, i)) <= n /\ Cardinality(From(S, i)) \in Nat
      BY <2>1, FS_Subset, FS_CardinalityType
    <2>3. Cardinality(From(S, i)) # 0
      BY <2>1, <2>2, FS_EmptySet
    <2> QED
      BY <2>2, <2>3, <1>1
  <1>3. \A i, j \in S : place[i] = place[j] => i = j
    BY PlacesDiffer
  <1>4. place \in Injection(S, 1..n)
    BY <1>2, <1>3 DEF Injection, IsInjective
  <1>5. IsFiniteSet(1..n) /\ Cardinality(1..n) = n
    BY <1>1, FS_Interval
  <1>6. place \in Surjection(S, 1..n)
    BY <1>4, <1>5, FS_Injection
  <1>7. \E i \in S : place[i] = k
    BY <1>6 DEF Surjection
  <1> QED
    BY <1>7

\* The history is a chain, each checkpoint after its parent.
LEMMA Chained == CheckpointsInv => HistoryIsAChain
  <1> SUFFICES ASSUME CheckpointsInv PROVE HistoryIsAChain
    OBVIOUS
  <1> DEFINE below == {i \in Rows : i < MaxCheckpoints + 1}
             nth(k) == CHOOSE i \in below : Cardinality({j \in below : j >= i}) = k
             n == Cardinality(below)
             l == [k \in 1..n |-> get_tuple(nth(k))]
  <1>1. below = Rows /\ (\A i \in Rows : i \in Nat /\ i > 0) /\ Rows \subseteq Ids
    BY IdNumbers DEF Rows, Ids
  <1>2. IsFiniteSet(below) /\ n \in Nat
    <2>1. IsFiniteSet(Ids)
      BY IdNumbers, FS_Interval DEF Ids
    <2> QED
      BY <1>1, <2>1, FS_Subset, FS_CardinalityType
  <1>3. \A k \in 1..n : nth(k) \in below /\ Cardinality(From(below, nth(k))) = k
    <2> SUFFICES ASSUME NEW k \in 1..n PROVE nth(k) \in below /\ Cardinality(From(below, nth(k))) = k
      OBVIOUS
    <2> HIDE DEF below
    <2>1. \E i \in below : Cardinality(From(below, i)) = k
      <3>1. below \subseteq Nat
        BY <1>1
      <3> QED
        BY <1>2, <3>1, EachPlace
    <2> QED
      BY <2>1 DEF From
  <1>4. list(MaxCheckpoints + 1) = l /\ Len(l) = n
    BY <1>2 DEF list
  <1> HIDE DEF below
  <1>5. \A k \in 1..n : l[k].id = nth(k) /\ l[k].parent = parent[nth(k)]
    BY <1>1, <1>3 DEF get_tuple
  <1> HIDE DEF nth, l
  <1>6. ASSUME NEW k \in 1..n, k = n PROVE l[k].parent = 0
    <2>1. From(below, nth(k)) = below
      <3>1. From(below, nth(k)) \in SUBSET below
        BY DEF From
      <3> QED
        BY <1>2, <1>3, <1>6, <3>1, FS_Subset
    <2>2. \A i \in Rows : i >= nth(k)
      BY <1>1, <2>1 DEF From
    <2>3. nth(k) \in Rows /\ parent[nth(k)] \in Rows \cup {0} /\ parent[nth(k)] < nth(k)
      BY <1>1, <1>3 DEF CheckpointsInv, ParentIsBefore
    <2>4. \A p \in Rows : ~(p < nth(k))
      BY <1>1, <2>2, <2>3
    <2> QED
      BY <1>5, <2>3, <2>4
  <1>7. ASSUME NEW k \in 1..n, k # n PROVE l[k].parent = l[k + 1].id
    <2> DEFINE i == nth(k)
               p == parent[i]
    <2>1. i \in Rows /\ Cardinality(From(below, i)) = k /\ i \in Nat
      BY <1>1, <1>3
    <2>2. p \in Rows \cup {0} /\ p < i /\ \A j \in Rows : j < i => j <= p
      BY <2>1 DEF CheckpointsInv, ParentIsBefore
    <2>3. p \in Rows
      <3>1. CASE p = 0
        <4>1. From(below, i) = below
          <5>1. \A j \in Rows : j \in Nat /\ ~(j < i)
            BY <1>1, <2>1, <2>2, <3>1
          <5> QED
            BY <1>1, <2>1, <5>1 DEF From
        <4> QED
          BY <1>7, <2>1, <4>1
      <3> QED
        BY <2>2, <3>1
    <2>4. From(below, p) = From(below, i) \cup {p} /\ p \notin From(below, i)
      <3>1. \A j \in Rows : j \in Nat /\ (j >= p <=> j >= i \/ j = p)
        BY <1>1, <2>1, <2>2, <2>3
      <3> QED
        BY <1>1, <2>1, <2>2, <2>3, <3>1 DEF From
    <2>5. IsFiniteSet(From(below, i))
      BY <1>2, FS_Subset DEF From
    <2>6. Cardinality(From(below, p)) = k + 1
      BY <2>1, <2>4, <2>5, FS_AddElement
    <2>7. k + 1 \in 1..n /\ nth(k + 1) \in Rows /\ Cardinality(From(below, nth(k + 1))) = k + 1
      BY <1>1, <1>2, <1>3, <1>7
    <2>8. p = nth(k + 1)
      <3>1. below \subseteq Nat /\ p \in below /\ nth(k + 1) \in below
        BY <1>1, <2>3, <2>7
      <3> QED
        BY <1>2, <2>6, <2>7, <3>1, PlacesDiffer
    <2> QED
      BY <1>5, <2>7, <2>8
  <1> QED
    BY <1>4, <1>6, <1>7 DEF HistoryIsAChain

\* The writes read back are those of the last batch, where it is long enough.
LEMMA ReadBack == CheckpointsInv => LastBatchReadBack
  <1> SUFFICES ASSUME CheckpointsInv, NEW i \in Rows, batches[i] # <<>>
               PROVE  LET w == writes[i]
                          last == Len(batches[i])
                      IN  /\ \A k \in 1..batches[i][last] : w[k] = last
                          /\ \A k \in (batches[i][last] + 1)..Len(w) : w[k] < last /\ batches[i][w[k]] >= k
    BY IdNumbers DEF LastBatchReadBack, get_tuple, Rows
  <1> DEFINE w == writes[i]
             last == Len(batches[i])
  <1>1. i \in Ids /\ batches[i] \in Seq(1..MaxWrites) /\ w \in Seq(1..MaxBatches)
    BY DEF CheckpointsInv, CheckpointsTypeOK, Rows
  <1>2. last \in Nat \ {0} /\ last \in 1..last /\ Len(w) \in Nat /\ \A b \in 1..last : batches[i][b] \in 1..MaxWrites
    <2>1. last \in Nat /\ last > 0 /\ \A b \in 1..last : batches[i][b] \in 1..MaxWrites
      BY <1>1, SeqFacts
    <2>2. Len(w) \in Nat
      BY <1>1, SeqFacts
    <2> QED
      BY <2>1, <2>2
  <1>3. /\ \A b \in 1..last : batches[i][b] <= Len(w)
        /\ \A k \in 1..Len(w) : /\ w[k] \in 1..last /\ k <= batches[i][w[k]]
                                /\ k <= batches[i][last] => w[k] = last
    BY <1>1 DEF CheckpointsInv, WritesTellBatches
  <1> HIDE DEF w, last
  <1>4. \A k \in 1..batches[i][last] : w[k] = last
    BY <1>2, <1>3
  <1>5. ASSUME NEW k \in (batches[i][last] + 1)..Len(w) PROVE w[k] < last /\ batches[i][w[k]] >= k
    <2>1. k \in 1..Len(w) /\ ~(k <= batches[i][last])
      BY <1>2
    <2>2. w[k] \in 1..last /\ k <= batches[i][w[k]] /\ w[k] # last
      BY <1>2, <1>3, <2>1
    <2> QED
      BY <1>2, <2>2
  <1> QED
    BY <1>4, <1>5 DEF w, last

\* Types (CheckpointsTypeOK): checkpoints, parents and writes keep their shape.
THEOREM CheckpointTypes == CheckpointsSpec => []CheckpointsTypeOK
  <1>1. CheckpointsInv => CheckpointsTypeOK
    BY DEF CheckpointsInv
  <1> QED
    BY <1>1, CheckpointsInitInv, CheckpointsInvNext, PTL DEF CheckpointsSpec

\* The checkpointer: a run goes on from its latest checkpoint, its history is a chain, and
\* the last batch of writes is read back, for every number of checkpoints and writes.
THEOREM RunGoesOn == CheckpointsSpec => []RunGoesOnWhereItWas
  <1>1. CheckpointsInv => ResumesWhereItWas
    BY LatestIs DEF ResumesWhereItWas, get_tuple
  <1>2. CheckpointsInv => RunGoesOnWhereItWas
    BY <1>1, Chained, ReadBack DEF RunGoesOnWhereItWas
  <1> QED
    BY <1>2, CheckpointsInitInv, CheckpointsInvNext, PTL DEF CheckpointsSpec

=============================================================================
