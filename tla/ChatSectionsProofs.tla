------------------------- MODULE ChatSectionsProofs -------------------------
(***************************************************************************)
(* Proofs about ChatSections, for any sections, chats and limit.           *)
(***************************************************************************)
EXTENDS ChatSections, FiniteSetTheorems, TLAPS

USE SectionsAssumption
----------------------------------------------------------------------------
(* The queue of chats in memory *)

Elements(s) == {s[i] : i \in DOMAIN s}

\* A queue with a chat in front, the last chat of a queue, and the rest.
Longer(q, c) == <<c>> \o q

LastOf(q) == q[Len(q)]

CutOf(q) == SubSeq(q, 1, Len(q) - 1)

\* What a deque of chats holds after a chat was put in front, and after the
\* last one was taken off.
LEMMA QueueFacts ==
  ASSUME NEW q \in Seq(Chats), NEW c \in Chats
  PROVE  /\ Longer(q, c) \in Seq(Chats)
         /\ Len(Longer(q, c)) = Len(q) + 1
         /\ Elements(Longer(q, c)) = Elements(q) \cup {c}
         /\ q # <<>> => /\ LastOf(Longer(q, c)) \in Elements(q)
                        /\ CutOf(Longer(q, c)) \in Seq(Chats)
                        /\ Len(CutOf(Longer(q, c))) = Len(q)
                        /\ Elements(q) \subseteq
                             Elements(CutOf(Longer(q, c))) \cup {LastOf(Longer(q, c))}
                        /\ c \in Elements(CutOf(Longer(q, c)))
<1> DEFINE longer == Longer(q, c)
           cut == CutOf(longer)
           last == LastOf(longer)
<1>0. /\ longer = <<c>> \o q
      /\ cut = SubSeq(longer, 1, Len(longer) - 1)
      /\ last = longer[Len(longer)]
  BY DEF Longer, CutOf, LastOf
<1> HIDE DEF longer, cut, last
<1>1. /\ longer \in Seq(Chats)
      /\ Len(longer) = Len(q) + 1
      /\ longer[1] = c
      /\ \A i \in 1..Len(q) : longer[i + 1] = q[i]
  BY <1>0
<1>2. DOMAIN longer = 1..Len(q) + 1 /\ DOMAIN q = 1..Len(q) /\ Len(q) \in Nat
  BY <1>1
<1>3. \A i \in 1..Len(q) + 1 : i # 1 => i - 1 \in 1..Len(q) /\ longer[i] = q[i - 1]
  BY <1>1, <1>2
<1>4. Elements(longer) = Elements(q) \cup {c}
  <2>1. ASSUME NEW i \in 1..Len(q) + 1
        PROVE  longer[i] \in Elements(q) \cup {c}
    BY <1>1, <1>2, <1>3 DEF Elements
  <2>2. \A x \in Elements(q) : x \in Elements(longer)
    <3>1. \A i \in 1..Len(q) : i + 1 \in DOMAIN longer
      BY <1>2
    <3> QED
      BY <3>1, <1>1, <1>2 DEF Elements
  <2>3. c \in Elements(longer)
    BY <1>1, <1>2 DEF Elements
  <2> QED
    BY <2>1, <2>2, <2>3, <1>2 DEF Elements
<1>5. ASSUME q # <<>>
      PROVE  /\ last \in Elements(q)
             /\ cut \in Seq(Chats)
             /\ Len(cut) = Len(q)
             /\ Elements(q) \subseteq Elements(cut) \cup {last}
             /\ c \in Elements(cut)
  <2>1. Len(q) \in Nat \ {0}
    BY <1>5
  <2>2. /\ cut \in Seq(Chats)
        /\ Len(cut) = Len(q)
        /\ \A i \in 1..Len(q) : cut[i] = longer[i]
    BY <1>0, <1>1, <2>1
  <2>3. DOMAIN cut = 1..Len(q)
    BY <2>2
  <2>4. last = q[Len(q)]
    BY <1>0, <1>1, <2>1
  <2>5. last \in Elements(q)
    <3>1. Len(q) \in DOMAIN q
      BY <2>1, <1>2
    <3> QED
      BY <3>1, <2>4 DEF Elements
  <2>6. c \in Elements(cut)
    <3>1. 1 \in 1..Len(q) /\ cut[1] = c
      BY <1>1, <2>1, <2>2
    <3> QED
      BY <3>1, <2>3 DEF Elements
  <2>7. ASSUME NEW i \in 1..Len(q)
        PROVE  q[i] \in Elements(cut) \cup {last}
    <3>1. CASE i = Len(q)
      BY <3>1, <2>4
    <3>2. CASE i # Len(q)
      <4>1. i + 1 \in 1..Len(q)
        BY <3>2, <2>1
      <4>2. cut[i + 1] = q[i]
        BY <4>1, <2>2, <1>1
      <4> QED
        BY <4>1, <4>2, <2>3 DEF Elements
    <3> QED
      BY <3>1, <3>2
  <2>8. Elements(q) \subseteq Elements(cut) \cup {last}
    BY <2>7, <1>2 DEF Elements
  <2> QED
    BY <2>2, <2>5, <2>6, <2>8
<1> QED
  BY <1>1, <1>4, <1>5 DEF longer, cut, last
----------------------------------------------------------------------------
(* The operators on views *)

LEMMA ViewsFields ==
  ASSUME NEW v \in Views
  PROVE  /\ v = [activeItemId |-> v.activeItemId, active |-> v.active,
                 loaderActive |-> v.loaderActive, keepInMemory |-> v.keepInMemory]
         /\ v.activeItemId \in [Sections -> Chats \cup {NoChat}]
         /\ v.active \subseteq Chats
         /\ v.loaderActive \subseteq Chats
         /\ v.keepInMemory \in Seq(Chats)
         /\ Kept(v) = Elements(v.keepInMemory)
BY DEF Views, Kept, Elements

\* Taking a view away removes both flags.
LEMMA DisableChatLoaderFacts ==
  ASSUME NEW v \in Views, NEW c, NEW w, w = DisableChatLoader(v, c)
  PROVE  /\ w \in Views
         /\ w.activeItemId = v.activeItemId
         /\ w.active = v.active \ {c}
         /\ w.loaderActive = v.loaderActive \ {c}
         /\ w.keepInMemory = v.keepInMemory
BY DEF DisableChatLoader, Views

\* Queueing a chat takes the view of at most one other chat away, and leaves
\* the views of the rest in the queue.
LEMMA AddChatInMemoryFacts ==
  ASSUME NEW v \in Views, NEW c \in Chats, NEW w, w = AddChatInMemory(v, c)
  PROVE  /\ w \in Views
         /\ w.activeItemId = v.activeItemId
         /\ c \in Kept(w)
         /\ Len(v.keepInMemory) <= MaxChatsInMemory =>
              Len(w.keepInMemory) <= MaxChatsInMemory
         /\ \E gone \in SUBSET (Chats \ {c}) :
              /\ w.active = v.active \ gone
              /\ w.loaderActive = v.loaderActive \ gone
              /\ Kept(v) \subseteq Kept(w) \cup gone
<1> DEFINE queue == Longer(v.keepInMemory, c)
           cut == CutOf(queue)
           last == LastOf(queue)
<1>1. CASE c \in Kept(v)
  <2>1. w = v
    BY <1>1 DEF AddChatInMemory
  <2>2. {} \in SUBSET (Chats \ {c})
    OBVIOUS
  <2>3. v.active = v.active \ {} /\ v.loaderActive = v.loaderActive \ {}
    OBVIOUS
  <2> QED
    BY <2>1, <2>2, <2>3, <1>1
<1>2. CASE c \notin Kept(v)
  <2>1. /\ v.keepInMemory \in Seq(Chats)
        /\ Kept(v) = Elements(v.keepInMemory)
    BY ViewsFields
  <2>2. v.keepInMemory \in Seq(Chats)
    BY <2>1
  <2>3. /\ queue \in Seq(Chats)
        /\ Len(queue) = Len(v.keepInMemory) + 1
        /\ Elements(queue) = Elements(v.keepInMemory) \cup {c}
        /\ v.keepInMemory # <<>> =>
             /\ last \in Elements(v.keepInMemory)
             /\ cut \in Seq(Chats)
             /\ Len(cut) = Len(v.keepInMemory)
             /\ Elements(v.keepInMemory) \subseteq Elements(cut) \cup {last}
             /\ c \in Elements(cut)
    BY <2>2, QueueFacts
  <2> HIDE DEF queue, cut, last
  <2>4. /\ queue \in Seq(Chats)
        /\ Len(queue) = Len(v.keepInMemory) + 1
        /\ Elements(queue) = Kept(v) \cup {c}
        /\ v.keepInMemory # <<>> =>
             /\ last \in Kept(v)
             /\ cut \in Seq(Chats)
             /\ Len(cut) = Len(v.keepInMemory)
             /\ Kept(v) \subseteq Elements(cut) \cup {last}
             /\ c \in Elements(cut)
    BY <2>3, <2>1
  <2>5. CASE Len(queue) > MaxChatsInMemory
    <3> DEFINE u == [v EXCEPT !.keepInMemory = cut]
    <3>1. v.keepInMemory # <<>>
      BY <2>1, <2>4, <2>5
    <3>2. /\ u \in Views
          /\ u.activeItemId = v.activeItemId
          /\ u.active = v.active
          /\ u.loaderActive = v.loaderActive
          /\ u.keepInMemory = cut
      BY <2>4, <3>1 DEF Views
    <3>3. w = DisableChatLoader(u, last)
      BY <1>2, <2>5 DEF AddChatInMemory, Longer, CutOf, LastOf, queue, cut, last
    <3> HIDE DEF u
    <3>4. /\ w \in Views
          /\ w.activeItemId = v.activeItemId
          /\ w.active = v.active \ {last}
          /\ w.loaderActive = v.loaderActive \ {last}
          /\ w.keepInMemory = cut
      BY <3>2, <3>3, DisableChatLoaderFacts
    <3>5. Kept(w) = Elements(cut)
      BY <3>4, ViewsFields
    <3>6. Len(w.keepInMemory) = Len(v.keepInMemory)
      BY <3>4, <3>1, <2>4
    <3>7. last \in Chats \ {c}
      BY <3>1, <2>1, <2>4, <1>2 DEF Elements
    <3>8. /\ c \in Kept(w)
          /\ Kept(v) \subseteq Kept(w) \cup {last}
      BY <3>1, <3>5, <2>4
    <3>9. {last} \in SUBSET (Chats \ {c})
      BY <3>7
    <3> QED
      BY <3>4, <3>6, <3>8, <3>9
  <2>6. CASE ~(Len(queue) > MaxChatsInMemory)
    <3>1. w = [v EXCEPT !.keepInMemory = queue]
      BY <1>2, <2>6 DEF AddChatInMemory, Longer, CutOf, LastOf, queue, cut, last
    <3>2. /\ w \in Views
          /\ w.activeItemId = v.activeItemId
          /\ w.active = v.active
          /\ w.loaderActive = v.loaderActive
          /\ w.keepInMemory = queue
      BY <3>1, <2>4 DEF Views
    <3>3. Kept(w) = Kept(v) \cup {c}
      BY <3>2, <2>4, ViewsFields
    <3>4. Len(w.keepInMemory) <= MaxChatsInMemory
      BY <2>6, <3>2, <2>4
    <3>5. {} \in SUBSET (Chats \ {c})
      OBVIOUS
    <3> QED
      BY <3>2, <3>3, <3>4, <3>5
  <2> QED
    BY <2>5, <2>6
<1> QED
  BY <1>1, <1>2

\* The flags and the queue agree with each other.
Agree(v) == v.active \subseteq v.loaderActive

\* What setActiveItem does to the views v.  Only a chat that has a row and whose
\* section is on screen gets its view loaded; it is then the only visible one
\* of its section.
ItemSet(v, w, s, c, rows, screen) ==
  /\ w \in Views
  /\ w.activeItemId = [v.activeItemId EXCEPT ![s] = c]
  /\ w.active \subseteq v.active \cup (rows \cap {c})
  /\ ~(screen = s /\ c \in rows) => w.active = v.active
  /\ screen = s /\ c \in rows => c \in w.active /\ w.active \cap ChatsOf(s) \subseteq {c}
  /\ Agree(v) => Agree(w)
  /\ \A behind : LoadedAreKept(v, behind) => LoadedAreKept(w, behind)
  /\ screen = s /\ c \in rows =>
       \A behind : LoadedAreKept(v, behind \cup {c}) => LoadedAreKept(w, behind)

LEMMA SetActiveItemFacts ==
  ASSUME NEW v \in Views, NEW s \in Sections, NEW c \in Chats \cup {NoChat},
         NEW rows \in SUBSET Chats, NEW screen
  PROVE  ItemSet(v, SetActiveItem(v, s, c, rows, screen), s, c, rows, screen)
<1> DEFINE w == SetActiveItem(v, s, c, rows, screen)
<1> SUFFICES ItemSet(v, w, s, c, rows, screen)
  OBVIOUS
<1> DEFINE u == [v EXCEPT !.activeItemId[s] = c]
<1>1. /\ u \in Views
      /\ u.activeItemId = [v.activeItemId EXCEPT ![s] = c]
      /\ u.active = v.active
      /\ u.loaderActive = v.loaderActive
      /\ u.keepInMemory = v.keepInMemory
  BY DEF Views
<1>2. w = IF screen = s /\ c \in rows THEN AddChatInMemory(SetActiveRow(u, s, c), c) ELSE u
  BY DEF SetActiveItem, ActiveItemSet
<1> HIDE DEF u, w
<1>3. CASE ~(screen = s /\ c \in rows)
  BY <1>1, <1>2, <1>3 DEF ItemSet, Agree, LoadedAreKept, Kept
<1>4. CASE screen = s /\ c \in rows
  <2> DEFINE x == SetActiveRow(u, s, c)
  <2>1. c \in Chats
    BY <1>4
  <2>2. /\ x \in Views
        /\ x.activeItemId = u.activeItemId
        /\ x.active = (u.active \ ChatsOf(s)) \cup {c}
        /\ x.loaderActive = (IF c \in u.active THEN u.loaderActive ELSE u.loaderActive \cup {c})
        /\ x.keepInMemory = u.keepInMemory
    <3> DEFINE A == (u.active \ ChatsOf(s)) \cup {c}
               L == IF c \in u.active THEN u.loaderActive ELSE u.loaderActive \cup {c}
    <3>1. A \in SUBSET Chats /\ L \in SUBSET Chats
      BY <1>1, <2>1, ViewsFields
    <3>2. x = [u EXCEPT !.active = A, !.loaderActive = L]
      BY DEF SetActiveRow
    <3> HIDE DEF A, L, x
    <3>3. /\ x \in Views
          /\ x.activeItemId = u.activeItemId
          /\ x.active = A
          /\ x.loaderActive = L
          /\ x.keepInMemory = u.keepInMemory
      BY <1>1, <3>1, <3>2 DEF Views
    <3> QED
      BY <3>3 DEF A, L
  <2>3. w = AddChatInMemory(x, c)
    BY <1>2, <1>4
  <2> HIDE DEF x
  <2>4. x \in Views
    BY <2>2
  <2>5. /\ w \in Views
        /\ w.activeItemId = x.activeItemId
        /\ c \in Kept(w)
        /\ Len(x.keepInMemory) <= MaxChatsInMemory =>
             Len(w.keepInMemory) <= MaxChatsInMemory
    BY <2>1, <2>4, <2>3, AddChatInMemoryFacts
  <2>6. PICK gone \in SUBSET (Chats \ {c}) :
          /\ w.active = x.active \ gone
          /\ w.loaderActive = x.loaderActive \ gone
          /\ Kept(x) \subseteq Kept(w) \cup gone
    BY <2>1, <2>4, <2>3, AddChatInMemoryFacts
  <2>7. /\ c \in w.active
        /\ w.active \cap ChatsOf(s) \subseteq {c}
        /\ w.active \subseteq v.active \cup (rows \cap {c})
    BY <1>1, <1>4, <2>2, <2>6
  <2>8. ASSUME Agree(v) PROVE Agree(w)
    BY <1>1, <2>2, <2>6, <2>8 DEF Agree
  <2>9. ASSUME NEW behind, LoadedAreKept(v, behind \cup {c})
        PROVE  LoadedAreKept(w, behind)
    <3>1. /\ v.loaderActive \subseteq Kept(x) \cup behind \cup {c}
          /\ Len(x.keepInMemory) <= MaxChatsInMemory
      BY <1>1, <2>2, <2>9 DEF Kept, LoadedAreKept
    <3>2. x.loaderActive \subseteq Kept(x) \cup behind \cup {c}
      BY <1>1, <2>2, <3>1
    <3> QED
      BY <2>5, <2>6, <3>1, <3>2 DEF LoadedAreKept
  <2>10. ASSUME NEW behind, LoadedAreKept(v, behind)
         PROVE  LoadedAreKept(w, behind)
    <3>1. LoadedAreKept(v, behind \cup {c})
      BY <2>10 DEF LoadedAreKept
    <3> QED
      BY <3>1, <2>9
  <2> QED
    BY <1>1, <1>4, <2>2, <2>5, <2>7, <2>8, <2>9, <2>10 DEF ItemSet
<1> QED
  BY <1>3, <1>4
\* The queue keeps every view that exists.
LEMMA SettingKeeps ==
  ASSUME NEW v \in Views, NEW s \in Sections, NEW c \in Chats \cup {NoChat},
         NEW rows \in SUBSET Chats, NEW screen, NEW behind, LoadedAreKept(v, behind)
  PROVE  LoadedAreKept(SetActiveItem(v, s, c, rows, screen), behind)
BY SetActiveItemFacts DEF ItemSet
----------------------------------------------------------------------------
(* The invariant, written for any views, chats, rows and section on screen *)

OwnRows(existing, loaded, s) == Rows(existing, loaded) \cap ChatsOf(s)

\* The active chat of section s has a row.
ItemIn(v, existing, loaded, s) ==
  v.activeItemId[s] \in OwnRows(existing, loaded, s) \cup {NoChat}

\* If it has, it is the visible one.
ShownIn(v, existing, loaded, s) ==
  v.activeItemId[s] \in OwnRows(existing, loaded, s) =>
    v.active \cap OwnRows(existing, loaded, s) = {v.activeItemId[s]}

Good(v, existing, loaded, screen) ==
  /\ v \in Views
  /\ v.active \subseteq v.loaderActive \cap existing
  /\ Categorised = {} =>
       /\ \A s \in loaded : ItemIn(v, existing, loaded, s)
       /\ screen \in Sections => ShownIn(v, existing, loaded, screen)

Types ==
  /\ chats \subseteq Chats
  /\ sections \subseteq Sections
  /\ chatsLoaded \subseteq sections
  /\ activeSection \in Sections \cup {OtherSection}
  /\ lastOpenChat \in [Sections -> Chats \cup {NoChat}]
  /\ createdBehind \subseteq Chats

\* IInv says that the views are good.
LEMMA ShapeOfIInv ==
  /\ IInv <=> /\ Types
              /\ Personal \in chatsLoaded
              /\ Good(views, chats, chatsLoaded, activeSection)
              /\ LoadedAreKept(views, createdBehind)
  /\ IInv' <=> /\ Types'
               /\ (Personal \in chatsLoaded)'
               /\ Good(views', chats', chatsLoaded', activeSection')
               /\ LoadedAreKept(views', createdBehind')
BY DEF IInv, TypeOK, Types, Good, ItemsExist, ActiveChatIsShown, ActiveRows, ItemIn,
       ShownIn, OwnRows, LoadedAreKept, Kept, Rows, ChatsOf

\* Setting the active item of one section leaves the views good, if the other
\* sections are fine and the item is a chat of the section.
LEMMA SettingIsGood ==
  ASSUME NEW v \in Views, NEW existing \in SUBSET Chats, NEW loaded \in SUBSET Sections,
         NEW screen \in Sections \cup {OtherSection}, NEW s \in loaded,
         NEW c \in Chats \cup {NoChat},
         v.active \subseteq v.loaderActive \cap existing,
         Categorised = {} =>
           /\ c \in OwnRows(existing, loaded, s) \cup {NoChat}
           /\ \A t \in loaded \ {s} : ItemIn(v, existing, loaded, t)
           /\ screen \in Sections \ {s} => ShownIn(v, existing, loaded, screen)
  PROVE  Good(SetActiveItem(v, s, c, Rows(existing, loaded), screen),
              existing, loaded, screen)
<1> DEFINE rows == Rows(existing, loaded)
           w == SetActiveItem(v, s, c, rows, screen)
<1>0. /\ s \in Sections
      /\ rows \in SUBSET Chats
      /\ rows \subseteq existing
      /\ w = SetActiveItem(v, s, c, rows, screen)
  BY DEF Rows
<1> HIDE DEF rows, w
<1>a. ItemSet(v, w, s, c, rows, screen)
  BY <1>0, SetActiveItemFacts
<1>1. /\ w \in Views
      /\ w.activeItemId = [v.activeItemId EXCEPT ![s] = c]
      /\ w.active \subseteq v.active \cup (rows \cap {c})
      /\ ~(screen = s /\ c \in rows) => w.active = v.active
      /\ screen = s /\ c \in rows => c \in w.active /\ w.active \cap ChatsOf(s) \subseteq {c}
      /\ Agree(v) => Agree(w)
  BY <1>a DEF ItemSet
<1>2. w.active \subseteq w.loaderActive \cap existing
  BY <1>0, <1>1 DEF Agree
<1>3. /\ w.activeItemId[s] = c
      /\ \A t \in Sections \ {s} : w.activeItemId[t] = v.activeItemId[t]
  BY <1>0, <1>1 DEF Views
<1>4. ASSUME Categorised = {}, NEW t \in loaded
      PROVE  ItemIn(w, existing, loaded, t)
  BY <1>3, <1>4 DEF ItemIn
<1>5. ASSUME Categorised = {}, screen \in Sections
      PROVE  ShownIn(w, existing, loaded, screen)
  <2>1. CASE screen = s
    BY <1>1, <1>3, <2>1 DEF ShownIn, OwnRows, rows
  <2>2. CASE screen # s
    BY <1>1, <1>3, <1>5, <2>2 DEF ShownIn
  <2> QED
    BY <2>1, <2>2
<1> QED
  BY <1>1, <1>2, <1>4, <1>5 DEF Good, w, rows

\* What is recorded in the settings is a chat or none.
LEMMA RecordedType ==
  ASSUME NEW last \in [Sections -> Chats \cup {NoChat}], NEW s \in Sections,
         NEW c \in Chats \cup {NoChat}, NEW rows, NEW screen
  PROVE  Recorded(last, s, c, rows, screen) \in [Sections -> Chats \cup {NoChat}]
BY DEF Recorded

\* The first channel of a section is one of its rows, if it has any.
LEMMA FirstChannelsFacts ==
  ASSUME NEW v \in Views, NEW s \in Sections, NEW rows \in SUBSET Chats,
         NEW c \in FirstChannels(v, s, rows)
  PROVE  /\ c \in Chats \cup {NoChat}
         /\ rows \cap ChatsOf(s) # {} => c \in rows \cap ChatsOf(s)
         /\ Categorised = {} => c \in (rows \cap ChatsOf(s)) \cup {NoChat}
BY ViewsFields DEF FirstChannels, OnlyCategories

\* The item a section is built with is one of its chats, or none.
LEMMA SelectedItemsFacts ==
  ASSUME Types, NEW s \in Sections, NEW c \in SelectedItems(s)
  PROVE  c \in (chats \cap ChatsOf(s)) \cup {NoChat}
BY DEF SelectedItems, Types

\* The item a section is shown with is one of its rows, if it has any.
LEMMA ActivatedItemsFacts ==
  ASSUME IInv, NEW s \in Sections, NEW c \in ActivatedItems(s)
  PROVE  /\ c \in Chats \cup {NoChat}
         /\ Categorised = {} =>
              /\ c \in OwnRows(chats, chatsLoaded \cup {s}, s) \cup {NoChat}
              /\ OwnRows(chats, chatsLoaded \cup {s}, s) # {} => c # NoChat
<1> DEFINE rows == Rows(chats, chatsLoaded \cup {s})
           had == IF s \in chatsLoaded THEN {views.activeItemId[s]} ELSE SelectedItems(s)
<1>1. Types /\ Good(views, chats, chatsLoaded, activeSection)
  BY ShapeOfIInv
<1>2. views \in Views /\ rows \in SUBSET Chats /\ rows \cap ChatsOf(s) = OwnRows(chats, chatsLoaded \cup {s}, s)
  BY <1>1 DEF Good, Rows, OwnRows, Types
<1>3. \/ c \in had \ {NoChat}
      \/ c \in FirstChannels(views, s, rows)
  BY DEF ActivatedItems
<1>4. ASSUME NEW d \in had
      PROVE  /\ d \in Chats \cup {NoChat}
             /\ Categorised = {} => d \in (rows \cap ChatsOf(s)) \cup {NoChat}
  <2>1. CASE s \in chatsLoaded
    <3>1. chatsLoaded \cup {s} = chatsLoaded
      BY <2>1
    <3>2. d = views.activeItemId[s]
      BY <2>1
    <3>3. d \in Chats \cup {NoChat}
      BY <1>2, <3>2, ViewsFields
    <3>4. Categorised = {} => d \in (rows \cap ChatsOf(s)) \cup {NoChat}
      BY <1>1, <2>1, <3>1, <3>2 DEF Good, ItemIn, OwnRows
    <3> QED
      BY <3>3, <3>4
  <2>2. CASE s \notin chatsLoaded
    <3>1. d \in (chats \cap ChatsOf(s)) \cup {NoChat}
      BY <1>1, <2>2, SelectedItemsFacts
    <3>2. chats \cap ChatsOf(s) \subseteq rows \cap ChatsOf(s)
      BY DEF Rows, ChatsOf
    <3> QED
      BY <1>2, <3>1, <3>2
  <2> QED
    BY <2>1, <2>2
<1> HIDE DEF had, rows
<1>5. CASE c \in had \ {NoChat}
  BY <1>2, <1>4, <1>5
<1>6. CASE c \in FirstChannels(views, s, rows)
  <2>1. NoChat \notin rows
    BY <1>2
  <2> QED
    <3>1. /\ c \in Chats \cup {NoChat}
          /\ rows \cap ChatsOf(s) # {} => c \in rows \cap ChatsOf(s)
          /\ Categorised = {} => c \in (rows \cap ChatsOf(s)) \cup {NoChat}
      BY <1>2, <1>6, FirstChannelsFacts
    <3> QED
      BY <1>2, <2>1, <3>1
<1> QED
  BY <1>3, <1>5, <1>6
----------------------------------------------------------------------------
(* The invariant is inductive *)

LEMMA InitInv == Init => IInv
<1> SUFFICES ASSUME Init PROVE IInv
  OBVIOUS
<1>1. Types /\ Personal \in chatsLoaded
  BY DEF Init, Types, Sections
<1>2. PICK item \in SelectedItems(Personal) : views = Started(item)
  BY DEF Init
<1>3. item \in (chats \cap ChatsOf(Personal)) \cup {NoChat}
  BY <1>1, <1>2, SelectedItemsFacts DEF Types
<1>4. /\ views \in Views
      /\ views.activeItemId[Personal] = item
      /\ views.active = {} /\ views.loaderActive = {} /\ views.keepInMemory = <<>>
  BY <1>1, <1>2, <1>3 DEF Started, Views, Types, Sections
<1>5. Good(views, chats, chatsLoaded, activeSection)
  BY <1>3, <1>4 DEF Init, Good, ItemIn, OwnRows, Rows, ChatsOf
<1>6. LoadedAreKept(views, createdBehind)
  BY <1>4 DEF LoadedAreKept, Kept
<1> QED
  BY <1>1, <1>5, <1>6, ShapeOfIInv

\* What every step below starts from.
LEMMA WhatHolds ==
  ASSUME IInv
  PROVE  /\ Types
         /\ Personal \in chatsLoaded
         /\ views \in Views
         /\ views.active \subseteq views.loaderActive \cap chats
         /\ Categorised = {} =>
              /\ \A s \in chatsLoaded : ItemIn(views, chats, chatsLoaded, s)
              /\ activeSection \in Sections =>
                   ShownIn(views, chats, chatsLoaded, activeSection)
         /\ LoadedAreKept(views, createdBehind)
BY ShapeOfIInv DEF Good

LEMMA OpenChatInv ==
  ASSUME IInv, NEW c \in Chats, OpenChat(c)
  PROVE  IInv'
<1> DEFINE s == SectionOf[c]
           rows == Rows(chats, chatsLoaded)
<1>1. /\ c \in rows
      /\ views' = SetActiveItem(views, s, c, rows, activeSection)
      /\ lastOpenChat' = Recorded(lastOpenChat, s, c, rows, activeSection)
      /\ UNCHANGED <<chats, sections, chatsLoaded, activeSection, createdBehind>>
  BY DEF OpenChat
<1>2. /\ s \in Sections /\ s \in chatsLoaded
      /\ c \in OwnRows(chats, chatsLoaded, s)
      /\ chats \in SUBSET Chats /\ chatsLoaded \in SUBSET Sections /\ rows \in SUBSET Chats
      /\ activeSection \in Sections \cup {OtherSection}
  BY <1>1, WhatHolds DEF OwnRows, Rows, ChatsOf, Types
<1>3. Good(views', chats, chatsLoaded, activeSection)
  BY <1>1, <1>2, WhatHolds, SettingIsGood
<1>4. LoadedAreKept(views', createdBehind)
  BY <1>1, <1>2, WhatHolds, SettingKeeps
<1>5. Types'
  BY <1>1, <1>2, WhatHolds, RecordedType DEF Types
<1> QED
  BY <1>1, <1>3, <1>4, <1>5, WhatHolds, ShapeOfIInv

LEMMA ActivateSectionInv ==
  ASSUME IInv, NEW s \in Sections, ActivateSection(s)
  PROVE  IInv'
<1> DEFINE loaded == chatsLoaded \cup {s}
           rows == Rows(chats, loaded)
<1>1. PICK c \in ActivatedItems(s) :
        /\ views' = SetActiveItem(views, s, c, rows, s)
        /\ lastOpenChat' = Recorded(lastOpenChat, s, c, rows, s)
  BY DEF ActivateSection
<1>2. /\ s \in sections
      /\ activeSection' = s
      /\ chatsLoaded' = loaded
      /\ UNCHANGED <<chats, sections, createdBehind>>
  BY DEF ActivateSection
<1>3. /\ c \in Chats \cup {NoChat}
      /\ Categorised = {} => c \in OwnRows(chats, loaded, s) \cup {NoChat}
  BY ActivatedItemsFacts
<1>4. /\ chats \in SUBSET Chats /\ loaded \in SUBSET Sections /\ rows \in SUBSET Chats
      /\ s \in loaded /\ s \in Sections \cup {OtherSection}
  BY WhatHolds DEF Types, Rows
<1>5. ASSUME Categorised = {}, NEW t \in loaded \ {s}
      PROVE  ItemIn(views, chats, loaded, t)
  BY <1>5, WhatHolds DEF ItemIn, OwnRows, Rows
<1>6. Good(views', chats, loaded, s)
  <2> HIDE DEF loaded
  <2> QED
    BY <1>1, <1>3, <1>4, <1>5, WhatHolds, SettingIsGood
<1>7. LoadedAreKept(views', createdBehind)
  BY <1>1, <1>3, <1>4, WhatHolds, SettingKeeps
<1>8. Types' /\ (Personal \in chatsLoaded)'
  BY <1>1, <1>2, <1>3, WhatHolds, RecordedType DEF Types
<1> QED
  BY <1>2, <1>6, <1>7, <1>8, ShapeOfIInv

LEMMA ChatCreatedInv ==
  ASSUME IInv, NEW c \in Chats, NEW setChatAsActive \in BOOLEAN,
         ChatCreated(c, setChatAsActive)
  PROVE  IInv'
<1> DEFINE s == SectionOf[c]
           existing == chats \cup {c}
           rows == Rows(existing, chatsLoaded)
           added == [views EXCEPT !.active = @ \cup {c}, !.loaderActive = @ \cup {c}]
<1>1. /\ c \notin chats
      /\ chats' = existing
      /\ UNCHANGED <<sections, chatsLoaded, activeSection>>
      /\ createdBehind' = IF setChatAsActive /\ s \in chatsLoaded \ {activeSection}
                          THEN createdBehind \cup {c}
                          ELSE createdBehind
  BY DEF ChatCreated
<1>2. /\ s \in Sections
      /\ existing \in SUBSET Chats /\ chatsLoaded \in SUBSET Sections /\ rows \in SUBSET Chats
      /\ activeSection \in Sections \cup {OtherSection}
  BY WhatHolds DEF Types, Rows
\* A section other than that of the new chat has the rows it had.
<1>3. ASSUME NEW t \in Sections \ {s}
      PROVE  OwnRows(existing, chatsLoaded, t) = OwnRows(chats, chatsLoaded, t)
  BY DEF OwnRows, Rows, ChatsOf
<1>4. CASE setChatAsActive /\ s \in chatsLoaded
  <2>1. /\ views' = SetActiveItem(added, s, c, rows, activeSection)
        /\ lastOpenChat' = Recorded(lastOpenChat, s, c, rows, activeSection)
    BY <1>1, <1>4 DEF ChatCreated
  <2>2. /\ added \in Views
        /\ added.activeItemId = views.activeItemId
        /\ added.active = views.active \cup {c}
        /\ added.loaderActive = views.loaderActive \cup {c}
        /\ added.keepInMemory = views.keepInMemory
    BY WhatHolds DEF Views
  <2> HIDE DEF added
  <2>3. c \in rows /\ c \in OwnRows(existing, chatsLoaded, s)
    BY <1>4 DEF OwnRows, Rows, ChatsOf
  <2>4. added.active \subseteq added.loaderActive \cap existing
    BY <2>2, WhatHolds
  <2>5. ASSUME Categorised = {}, NEW t \in chatsLoaded \ {s}
        PROVE  ItemIn(added, existing, chatsLoaded, t)
    BY <1>2, <1>3, <2>2, <2>5, WhatHolds DEF ItemIn
  <2>6. ASSUME Categorised = {}, activeSection \in Sections \ {s}
        PROVE  ShownIn(added, existing, chatsLoaded, activeSection)
    <3>1. c \notin OwnRows(existing, chatsLoaded, activeSection)
      BY <2>6 DEF OwnRows, ChatsOf
    <3> QED
      BY <1>3, <2>2, <2>6, <3>1, WhatHolds DEF ShownIn
  <2> HIDE DEF existing
  <2>7. Good(views', existing, chatsLoaded, activeSection)
    BY <1>2, <1>4, <2>1, <2>2, <2>3, <2>4, <2>5, <2>6, SettingIsGood
  \* The view of a chat created behind the screen escapes the queue; on screen
  \* it is queued.
  <2>8. LoadedAreKept(views', createdBehind')
    <3>1. LoadedAreKept(added, createdBehind \cup {c})
      BY <2>2, WhatHolds DEF LoadedAreKept, Kept
    <3>2. ItemSet(added, views', s, c, rows, activeSection)
      BY <1>2, <2>1, <2>2, SetActiveItemFacts
    <3>3. CASE activeSection = s
      BY <1>1, <2>3, <3>1, <3>2, <3>3 DEF ItemSet
    <3>4. CASE activeSection # s
      BY <1>1, <1>4, <3>1, <3>2, <3>4 DEF ItemSet
    <3> QED
      BY <3>3, <3>4
  <2>9. Types'
    BY <1>1, <1>2, <2>1, WhatHolds, RecordedType DEF Types
  <2> QED
    BY <1>1, <2>7, <2>8, <2>9, WhatHolds, ShapeOfIInv
<1>5. CASE ~(setChatAsActive /\ s \in chatsLoaded)
  <2>1. UNCHANGED <<views, lastOpenChat, createdBehind>>
    BY <1>1, <1>5 DEF ChatCreated
  <2>2. ASSUME Categorised = {}, NEW t \in chatsLoaded
        PROVE  ItemIn(views, existing, chatsLoaded, t)
    BY <2>2, WhatHolds DEF ItemIn, OwnRows, Rows
  <2>3. ASSUME Categorised = {}, activeSection \in Sections
        PROVE  ShownIn(views, existing, chatsLoaded, activeSection)
    <3> DEFINE item == views.activeItemId[activeSection]
    <3>1. SUFFICES ASSUME item \in OwnRows(existing, chatsLoaded, activeSection)
                   PROVE  views.active \cap OwnRows(existing, chatsLoaded, activeSection) = {item}
      BY DEF ShownIn
    <3>2. activeSection \in chatsLoaded /\ item # NoChat
      BY <3>1, <1>2, <2>3 DEF OwnRows, Rows, ChatsOf
    <3>3. item \in OwnRows(chats, chatsLoaded, activeSection)
      BY <2>3, <3>2, WhatHolds DEF ItemIn
    <3>4. views.active \cap OwnRows(chats, chatsLoaded, activeSection) = {item}
      BY <2>3, <3>3, WhatHolds DEF ShownIn
    <3> QED
      BY <1>1, <3>4, WhatHolds DEF OwnRows, Rows
  <2>4. Good(views, existing, chatsLoaded, activeSection)
    BY <2>2, <2>3, WhatHolds DEF Good
  <2>5. Types'
    BY <1>1, <1>2, <2>1, WhatHolds DEF Types
  <2> QED
    BY <1>1, <2>1, <2>4, <2>5, WhatHolds, ShapeOfIInv
<1> QED
  BY <1>4, <1>5

LEMMA HideActiveChatInv ==
  ASSUME IInv, NEW c \in Chats, HideActiveChat(c)
  PROVE  IInv'
<1> DEFINE s == SectionOf[c]
           rows == Rows(chats, chatsLoaded)
<1>1. PICK item \in ((rows \cap ChatsOf(s)) \ {c}) \cup {NoChat} :
        /\ views' = SetActiveItem(views, s, item, rows, activeSection)
        /\ lastOpenChat' = Recorded(lastOpenChat, s, item, rows, activeSection)
  BY DEF HideActiveChat
<1>2. /\ c \in rows
      /\ UNCHANGED <<chats, sections, chatsLoaded, activeSection, createdBehind>>
  BY DEF HideActiveChat
<1>3. /\ s \in Sections /\ s \in chatsLoaded
      /\ item \in OwnRows(chats, chatsLoaded, s) \cup {NoChat}
      /\ item \in Chats \cup {NoChat}
      /\ chats \in SUBSET Chats /\ chatsLoaded \in SUBSET Sections /\ rows \in SUBSET Chats
      /\ activeSection \in Sections \cup {OtherSection}
  BY <1>2, WhatHolds DEF OwnRows, Rows, ChatsOf, Types
<1>4. Good(views', chats, chatsLoaded, activeSection)
  BY <1>1, <1>3, WhatHolds, SettingIsGood
<1>5. LoadedAreKept(views', createdBehind)
  BY <1>1, <1>3, WhatHolds, SettingKeeps
<1>6. Types'
  BY <1>1, <1>2, <1>3, WhatHolds, RecordedType DEF Types
<1> QED
  BY <1>2, <1>4, <1>5, <1>6, WhatHolds, ShapeOfIInv

LEMMA ChatGoneInv ==
  ASSUME IInv, NEW c \in Chats, ChatGone(c)
  PROVE  IInv'
<1> DEFINE s == SectionOf[c]
           existing == chats \ {c}
           rows == Rows(existing, chatsLoaded)
           removed == DisableChatLoader(views, c)
<1>1. /\ c \in chats
      /\ chats' = existing
      /\ createdBehind' = createdBehind \ {c}
      /\ UNCHANGED <<sections, chatsLoaded, activeSection>>
  BY DEF ChatGone
<1>2. /\ s \in Sections
      /\ existing \in SUBSET Chats /\ chatsLoaded \in SUBSET Sections /\ rows \in SUBSET Chats
      /\ activeSection \in Sections \cup {OtherSection}
      /\ c \notin rows
  BY WhatHolds DEF Types, Rows
<1>3. /\ removed \in Views
      /\ removed.activeItemId = views.activeItemId
      /\ removed.active = views.active \ {c}
      /\ removed.loaderActive = views.loaderActive \ {c}
      /\ removed.keepInMemory = views.keepInMemory
  BY WhatHolds, DisableChatLoaderFacts
<1> HIDE DEF removed
<1>4. removed.active \subseteq removed.loaderActive \cap existing
  BY <1>3, WhatHolds
<1>5. LoadedAreKept(removed, createdBehind')
  BY <1>1, <1>3, WhatHolds DEF LoadedAreKept, Kept
<1>6. ASSUME NEW t \in Sections
      PROVE  OwnRows(existing, chatsLoaded, t) = OwnRows(chats, chatsLoaded, t) \ {c}
  BY DEF OwnRows, Rows
\* The active item of another section, and another active item of this one,
\* keeps its row.
<1>7. ASSUME Categorised = {}, NEW t \in chatsLoaded, t # s \/ views.activeItemId[t] # c
      PROVE  ItemIn(removed, existing, chatsLoaded, t)
  <2>1. views.activeItemId[t] \in OwnRows(chats, chatsLoaded, t) \cup {NoChat}
    BY <1>7, WhatHolds DEF ItemIn
  <2>2. views.activeItemId[t] # c
    BY <1>7, <2>1 DEF OwnRows, ChatsOf
  <2> QED
    BY <1>2, <1>3, <1>6, <2>1, <2>2 DEF ItemIn
<1>8. ASSUME Categorised = {}, activeSection \in Sections,
             views.activeItemId[activeSection] # c
      PROVE  ShownIn(removed, existing, chatsLoaded, activeSection)
  BY <1>3, <1>6, <1>8, WhatHolds DEF ShownIn
<1>9. CASE s \in chatsLoaded /\ views.activeItemId[s] = c
  <2>1. PICK first \in FirstChannels(views, s, rows) :
          IF first = c
          THEN views' = removed /\ UNCHANGED lastOpenChat
          ELSE /\ views' = SetActiveItem(removed, s, first, rows, activeSection)
               /\ lastOpenChat' = Recorded(lastOpenChat, s, first, rows, activeSection)
    BY <1>1, <1>9 DEF ChatGone, removed
  <2>2. /\ first \in Chats \cup {NoChat}
        /\ Categorised = {} => first \in (rows \cap ChatsOf(s)) \cup {NoChat}
    <3>1. views \in Views /\ first \in FirstChannels(views, s, rows)
      BY <2>1, WhatHolds
    <3> HIDE DEF rows
    <3> QED
      BY <1>2, <3>1, FirstChannelsFacts
  <2>3. ASSUME Categorised = {}, NEW t \in chatsLoaded \ {s}
        PROVE  ItemIn(removed, existing, chatsLoaded, t)
    BY <1>7, <2>3
  <2>4. ASSUME Categorised = {}, activeSection \in Sections \ {s}
        PROVE  ShownIn(removed, existing, chatsLoaded, activeSection)
    <3>1. CASE views.activeItemId[activeSection] = c
      <4>1. c \notin OwnRows(existing, chatsLoaded, activeSection)
        BY <1>2 DEF OwnRows
      <4> QED
        BY <1>3, <3>1, <4>1 DEF ShownIn
    <3>2. CASE views.activeItemId[activeSection] # c
      BY <1>8, <2>4, <3>2
    <3> QED
      BY <3>1, <3>2
  <2>5. CASE first = c
    <3>1. Categorised # {}
      BY <1>2, <2>2, <2>5
    <3>2. Good(removed, existing, chatsLoaded, activeSection)
      BY <1>3, <1>4, <3>1 DEF Good
    <3>3. Types'
      BY <1>1, <1>2, <2>1, <2>5, WhatHolds DEF Types
    <3> QED
      BY <1>1, <1>5, <2>1, <2>5, <3>2, <3>3, WhatHolds, ShapeOfIInv
  <2>6. CASE first # c
    <3>1. Categorised = {} => first \in OwnRows(existing, chatsLoaded, s) \cup {NoChat}
      BY <2>2 DEF OwnRows
    <3>2. Good(views', existing, chatsLoaded, activeSection)
      <4> HIDE DEF existing
      <4> QED
        BY <1>2, <1>3, <1>4, <1>9, <2>1, <2>2, <2>3, <2>4, <2>6, <3>1, SettingIsGood
    <3>3. LoadedAreKept(views', createdBehind')
      <4> DEFINE behind == createdBehind \ {c}
      <4>1. createdBehind' = behind
        BY <1>1
      <4> HIDE DEF behind, existing, rows
      <4>2. LoadedAreKept(SetActiveItem(removed, s, first, rows, activeSection), behind)
        BY <1>2, <1>3, <1>5, <2>2, <4>1, SettingKeeps
      <4> QED
        BY <2>1, <2>6, <4>1, <4>2
    <3>4. Types'
      BY <1>1, <1>2, <2>1, <2>2, <2>6, WhatHolds, RecordedType DEF Types
    <3> QED
      BY <1>1, <3>2, <3>3, <3>4, WhatHolds, ShapeOfIInv
  <2> QED
    BY <2>5, <2>6
<1>10. CASE ~(s \in chatsLoaded /\ views.activeItemId[s] = c)
  <2>1. views' = removed /\ UNCHANGED lastOpenChat
    BY <1>10 DEF ChatGone, removed
  <2>2. ASSUME Categorised = {}, NEW t \in chatsLoaded
        PROVE  ItemIn(removed, existing, chatsLoaded, t)
    BY <1>7, <1>10, <2>2
  <2>3. ASSUME Categorised = {}, activeSection \in Sections
        PROVE  ShownIn(removed, existing, chatsLoaded, activeSection)
    <3>1. CASE views.activeItemId[activeSection] = c
      <4>1. c \notin OwnRows(existing, chatsLoaded, activeSection)
        BY <1>2 DEF OwnRows
      <4> QED
        BY <1>3, <3>1, <4>1 DEF ShownIn
    <3>2. CASE views.activeItemId[activeSection] # c
      BY <1>8, <2>3, <3>2
    <3> QED
      BY <3>1, <3>2
  <2>4. Good(removed, existing, chatsLoaded, activeSection)
    BY <1>3, <1>4, <2>2, <2>3 DEF Good
  <2>5. Types'
    BY <1>1, <1>2, <2>1, WhatHolds DEF Types
  <2> QED
    BY <1>1, <1>5, <2>1, <2>4, <2>5, WhatHolds, ShapeOfIInv
<1> QED
  BY <1>9, <1>10

LEMMA CommunityJoinedInv ==
  ASSUME IInv, NEW s \in Sections, CommunityJoined(s)
  PROVE  IInv'
<1>1. /\ sections' = sections \cup {s}
      /\ UNCHANGED <<chats, chatsLoaded, activeSection, lastOpenChat, views, createdBehind>>
  BY DEF CommunityJoined
<1>2. Types'
  BY <1>1, WhatHolds DEF Types
<1> QED
  BY <1>1, <1>2, ShapeOfIInv

LEMMA LeaveForOtherSectionInv ==
  ASSUME IInv, LeaveForOtherSection
  PROVE  IInv'
<1>1. /\ activeSection' = OtherSection
      /\ UNCHANGED <<chats, sections, chatsLoaded, lastOpenChat, views, createdBehind>>
  BY DEF LeaveForOtherSection
<1>2. Good(views, chats, chatsLoaded, OtherSection)
  BY WhatHolds DEF Good
<1>3. Types'
  BY <1>1, WhatHolds DEF Types
<1> QED
  BY <1>1, <1>2, <1>3, WhatHolds, ShapeOfIInv

LEMMA RestartInv ==
  ASSUME IInv, Restart
  PROVE  IInv'
<1>1. PICK item \in SelectedItems(Personal) : views' = Started(item)
  BY DEF Restart
<1>2. /\ chatsLoaded' = {Personal}
      /\ activeSection' = OtherSection
      /\ createdBehind' = {}
      /\ UNCHANGED <<chats, sections, lastOpenChat>>
  BY DEF Restart
<1>3. Personal \in Sections
  BY DEF Sections
<1>4. item \in (chats \cap ChatsOf(Personal)) \cup {NoChat} /\ chats \subseteq Chats
  BY <1>1, <1>3, WhatHolds, SelectedItemsFacts DEF Types
<1>5. /\ views' \in Views
      /\ views'.activeItemId[Personal] = item
      /\ views'.active = {} /\ views'.loaderActive = {} /\ views'.keepInMemory = <<>>
  BY <1>1, <1>3, <1>4 DEF Started, Views
<1>6. Good(views', chats, {Personal}, OtherSection)
  BY <1>4, <1>5 DEF Good, ItemIn, OwnRows, Rows, ChatsOf
<1>7. LoadedAreKept(views', createdBehind')
  BY <1>5 DEF LoadedAreKept, Kept
<1>8. Types'
  BY <1>2, WhatHolds DEF Types
<1> QED
  BY <1>2, <1>6, <1>7, <1>8, ShapeOfIInv

\* Deleting the module of a section that is not on screen leaves the views good.
LEMMA ForgettingIsGood ==
  ASSUME NEW v, NEW existing \in SUBSET Chats, NEW loaded \in SUBSET Sections,
         NEW screen \in Sections \cup {OtherSection}, NEW s \in Sections, screen # s,
         Good(v, existing, loaded, screen)
  PROVE  /\ Good(Forgotten(v, s), existing, loaded \ {s}, screen)
         /\ \A behind : LoadedAreKept(v, behind) =>
                        LoadedAreKept(Forgotten(v, s), behind \ ChatsOf(s))
<1> DEFINE w == Forgotten(v, s)
<1>1. v \in Views
  BY DEF Good
<1>2. /\ w \in Views
      /\ \A t \in Sections \ {s} : w.activeItemId[t] = v.activeItemId[t]
      /\ w.active = v.active \ ChatsOf(s)
      /\ w.loaderActive = v.loaderActive \ ChatsOf(s)
      /\ w.keepInMemory = v.keepInMemory
  BY <1>1 DEF Forgotten, Views
<1> HIDE DEF w
<1>3. ASSUME NEW t \in Sections \ {s}
      PROVE  /\ OwnRows(existing, loaded \ {s}, t) = OwnRows(existing, loaded, t)
             /\ OwnRows(existing, loaded, t) \cap ChatsOf(s) = {}
  BY DEF OwnRows, Rows, ChatsOf
<1>4. ASSUME Categorised = {}, NEW t \in loaded \ {s}
      PROVE  ItemIn(w, existing, loaded \ {s}, t)
  BY <1>2, <1>3, <1>4 DEF ItemIn, Good
<1>5. ASSUME Categorised = {}, screen \in Sections
      PROVE  ShownIn(w, existing, loaded \ {s}, screen)
  <2>1. ShownIn(v, existing, loaded, screen)
    BY <1>5 DEF Good
  <2> QED
    BY <1>2, <1>3, <1>5, <2>1 DEF ShownIn
<1>6. w.active \subseteq w.loaderActive \cap existing
  BY <1>2 DEF Good
<1>7. Good(w, existing, loaded \ {s}, screen)
  BY <1>2, <1>4, <1>5, <1>6 DEF Good
<1>8. ASSUME NEW behind, LoadedAreKept(v, behind)
      PROVE  LoadedAreKept(w, behind \ ChatsOf(s))
  BY <1>2, <1>8 DEF LoadedAreKept, Kept
<1> QED
  BY <1>7, <1>8 DEF w

LEMMA CommunityLeftInv ==
  ASSUME IInv, NEW s \in Sections, CommunityLeft(s)
  PROVE  IInv'
<1> DEFINE rows == Rows(chats, chatsLoaded)
           forgotten == [lastOpenChat EXCEPT ![s] = NoChat]
<1>1. /\ s \in Communities
      /\ s # Personal
      /\ sections' = sections \ {s}
      /\ chatsLoaded' = chatsLoaded \ {s}
      /\ createdBehind' = createdBehind \ ChatsOf(s)
      /\ chats' = chats
  BY DEF CommunityLeft
<1>2. /\ chats \in SUBSET Chats /\ chatsLoaded \in SUBSET Sections /\ rows \in SUBSET Chats
      /\ Personal \in Sections /\ Personal \in chatsLoaded
      /\ activeSection \in Sections \cup {OtherSection}
      /\ forgotten \in [Sections -> Chats \cup {NoChat}]
  BY WhatHolds DEF Types, Rows, Sections
<1>3. CASE activeSection = s
  <2>1. PICK c \in ActivatedItems(Personal) :
          /\ views' = Forgotten(SetActiveItem(views, Personal, c, rows, Personal), s)
          /\ lastOpenChat' = Recorded(forgotten, Personal, c, rows, Personal)
    BY <1>3 DEF CommunityLeft
  <2>2. activeSection' = Personal
    BY <1>3 DEF CommunityLeft
  <2>3. chatsLoaded \cup {Personal} = chatsLoaded
    BY <1>2
  <2>4. /\ c \in Chats \cup {NoChat}
        /\ Categorised = {} => c \in OwnRows(chats, chatsLoaded, Personal) \cup {NoChat}
    BY <1>2, <2>3, ActivatedItemsFacts
  <2> DEFINE w == SetActiveItem(views, Personal, c, rows, Personal)
  <2>5. Good(w, chats, chatsLoaded, Personal)
    BY <1>2, <2>4, WhatHolds, SettingIsGood
  <2>6. LoadedAreKept(w, createdBehind)
    BY <1>2, <2>4, WhatHolds, SettingKeeps
  <2>7. views' = Forgotten(w, s)
    BY <2>1
  <2> HIDE DEF w
  <2>8. /\ Good(views', chats, chatsLoaded \ {s}, Personal)
        /\ LoadedAreKept(views', createdBehind')
    BY <1>1, <1>2, <2>5, <2>6, <2>7, ForgettingIsGood
  <2>9. Types'
    <3>1. lastOpenChat' \in [Sections -> Chats \cup {NoChat}]
      BY <1>2, <2>1, <2>4, RecordedType
    <3> QED
      BY <1>1, <1>2, <2>2, <3>1, WhatHolds DEF Types
  <2> QED
    BY <1>1, <1>2, <2>2, <2>8, <2>9, ShapeOfIInv
<1>4. CASE activeSection # s
  <2>1. /\ views' = Forgotten(views, s)
        /\ lastOpenChat' = forgotten
        /\ UNCHANGED activeSection
    BY <1>4 DEF CommunityLeft
  <2>2. Good(views, chats, chatsLoaded, activeSection)
    BY ShapeOfIInv
  <2>3. /\ Good(views', chats, chatsLoaded \ {s}, activeSection)
        /\ LoadedAreKept(views', createdBehind')
    BY <1>1, <1>2, <1>4, <2>1, <2>2, WhatHolds, ForgettingIsGood
  <2>4. Types'
    BY <1>1, <1>2, <2>1, WhatHolds DEF Types
  <2> QED
    BY <1>1, <1>2, <2>1, <2>3, <2>4, ShapeOfIInv
<1> QED
  BY <1>3, <1>4

LEMMA StutterInv ==
  ASSUME IInv, UNCHANGED vars
  PROVE  IInv'
<1>1. Types'
  BY WhatHolds DEF Types, vars
<1> QED
  BY <1>1, ShapeOfIInv DEF vars

LEMMA NextInv == IInv /\ [Next]_vars => IInv'
<1> SUFFICES ASSUME IInv, [Next]_vars PROVE IInv'
  OBVIOUS
<1>1. ASSUME NEW c \in Chats, OpenChat(c) PROVE IInv'
  BY <1>1, OpenChatInv
<1>2. ASSUME NEW c \in Chats, NEW setChatAsActive \in BOOLEAN,
             ChatCreated(c, setChatAsActive)
      PROVE  IInv'
  BY <1>2, ChatCreatedInv
<1>3. ASSUME NEW c \in Chats, ChatGone(c) PROVE IInv'
  BY <1>3, ChatGoneInv
<1>4. ASSUME NEW c \in Chats, HideActiveChat(c) PROVE IInv'
  BY <1>4, HideActiveChatInv
<1>5. ASSUME NEW s \in Sections, ActivateSection(s) PROVE IInv'
  BY <1>5, ActivateSectionInv
<1>6. ASSUME NEW s \in Sections, CommunityJoined(s) PROVE IInv'
  BY <1>6, CommunityJoinedInv
<1>7. ASSUME NEW s \in Sections, CommunityLeft(s) PROVE IInv'
  BY <1>7, CommunityLeftInv
<1> QED
  BY <1>1, <1>2, <1>3, <1>4, <1>5, <1>6, <1>7, LeaveForOtherSectionInv, RestartInv,
     StutterInv DEF Next

(***************************************************************************)
(* Every reachable state satisfies the invariant.                          *)
(***************************************************************************)
THEOREM Invariance == Spec => []IInv
BY InitInv, NextInv, PTL DEF Spec
----------------------------------------------------------------------------
(* What follows *)

(***************************************************************************)
(* The variables keep their types: the record of every section stays a     *)
(* chat or none, and rows are only built for sections with a module.       *)
(***************************************************************************)
THEOREM TypeCorrect == Spec => []TypeOK
<1>1. IInv => TypeOK
  BY DEF IInv
<1> QED
  BY <1>1, Invariance, PTL

(***************************************************************************)
(* The active chat on screen is the one that is visible, with its view     *)
(* loaded, whatever else is opened, created and left, as long as no        *)
(* community has categories.                                               *)
(***************************************************************************)
THEOREM ActiveIsShown ==
  ASSUME Categorised = {}
  PROVE  Spec => []ActiveChatIsShown
<1>1. IInv => ActiveChatIsShown
  BY DEF IInv
<1> QED
  BY <1>1, Invariance, PTL

\* A queue holds no more chats than its length.
LEMMA KeptBound ==
  ASSUME NEW q \in Seq(Chats)
  PROVE  IsFiniteSet(Elements(q)) /\ Cardinality(Elements(q)) <= Len(q)
<1>1. DOMAIN q = 1..Len(q) /\ Len(q) \in Nat
  OBVIOUS
<1>2. IsFiniteSet(1..Len(q)) /\ Cardinality(1..Len(q)) = Len(q)
  <2>1. 1 \in Int /\ Len(q) \in Int
    BY <1>1
  <2>2. /\ IsFiniteSet(1..Len(q))
        /\ Cardinality(1..Len(q)) = IF 1 > Len(q) THEN 0 ELSE Len(q) - 1 + 1
    BY <2>1, FS_Interval
  <2> QED
    BY <1>1, <2>2
<1>3. q \in Surjection(1..Len(q), Elements(q))
  <2>1. q \in [1..Len(q) -> Elements(q)]
    BY <1>1 DEF Elements
  <2>2. \A x \in Elements(q) : \E i \in 1..Len(q) : q[i] = x
    BY <1>1 DEF Elements
  <2> QED
    BY <2>1, <2>2 DEF Surjection
<1> QED
  BY <1>2, <1>3, FS_Surjection

(***************************************************************************)
(* Whatever the limit is, the queue counts every view but those of the     *)
(* chats that were created as the active one of a section behind the       *)
(* screen and were not opened since.                                       *)
(***************************************************************************)
THEOREM WithinLimit == Spec => []CountedWithinLimit
<1>1. IInv => CountedWithinLimit
  <2> DEFINE counted == views.loaderActive \ (createdBehind \ Kept(views))
  <2> SUFFICES ASSUME IInv PROVE Cardinality(counted) <= MaxChatsInMemory
    BY DEF CountedWithinLimit
  <2>1. /\ views \in Views
        /\ counted \subseteq Kept(views)
        /\ Len(views.keepInMemory) <= MaxChatsInMemory
    BY WhatHolds DEF LoadedAreKept
  <2> HIDE DEF counted
  <2>2. /\ views.keepInMemory \in Seq(Chats)
        /\ Kept(views) = Elements(views.keepInMemory)
    BY <2>1, ViewsFields
  <2>3. /\ IsFiniteSet(Kept(views))
        /\ Cardinality(Kept(views)) <= Len(views.keepInMemory)
    BY <2>2, KeptBound
  <2>4. /\ Cardinality(counted) <= Cardinality(Kept(views))
        /\ IsFiniteSet(counted)
    BY <2>1, <2>3, FS_Subset
  <2>5. /\ Cardinality(counted) \in Nat
        /\ Cardinality(Kept(views)) \in Nat
        /\ Len(views.keepInMemory) \in Nat
    BY <2>2, <2>3, <2>4, FS_CardinalityType
  <2> QED
    BY <2>1, <2>3, <2>4, <2>5
<1> QED
  BY <1>1, Invariance, PTL

(***************************************************************************)
(* Who switches to a section that has chats gets to see one of them, as    *)
(* long as no community has categories.                                    *)
(***************************************************************************)
THEOREM SwitchIsNotEmpty ==
  ASSUME Categorised = {}
  PROVE  Spec => SwitchShowsAChat
<1> DEFINE Shows == ScreenChanges /\ ActiveRows' # {} =>
                      views'.activeItemId[activeSection'] \in ActiveRows'
<1>1. IInv /\ [Next]_vars => [Shows]_vars
  <2> SUFFICES ASSUME IInv, Next, ScreenChanges, ActiveRows' # {}
               PROVE  views'.activeItemId[activeSection'] \in ActiveRows'
    OBVIOUS
  <2>1. IInv'
    BY NextInv
  <2>2. /\ views' \in Views
        /\ activeSection' \in chatsLoaded' =>
             views'.activeItemId[activeSection'] \in ActiveRows' \cup {NoChat}
    BY <2>1, ShapeOfIInv DEF Good, ItemIn, OwnRows, ActiveRows
  <2>3. ASSUME NEW s \in Sections, ActivateSection(s)
        PROVE  views'.activeItemId[activeSection'] \in ActiveRows'
    <3> DEFINE rows == Rows(chats, chatsLoaded \cup {s})
    <3>1. PICK c \in ActivatedItems(s) : views' = SetActiveItem(views, s, c, rows, s)
      BY <2>3 DEF ActivateSection
    <3>2. /\ activeSection' = s
          /\ chatsLoaded' = chatsLoaded \cup {s}
          /\ chats' = chats
      BY <2>3 DEF ActivateSection
    <3>3. ActiveRows' = OwnRows(chats, chatsLoaded \cup {s}, s)
      BY <3>2 DEF ActiveRows, OwnRows, ChatsOf, Rows
    <3>4. c \in Chats \cup {NoChat} /\ c # NoChat
      BY <3>3, ActivatedItemsFacts
    <3>5. rows \in SUBSET Chats /\ views \in Views
      BY WhatHolds DEF Rows, Types
    <3>6. ItemSet(views, views', s, c, rows, s)
      BY <3>1, <3>4, <3>5, SetActiveItemFacts
    <3>7. views'.activeItemId[s] = c
      BY <3>5, <3>6 DEF ItemSet, Views
    <3> QED
      BY <2>2, <3>2, <3>4, <3>7
  <2>4. ASSUME NEW s \in Sections, CommunityLeft(s)
        PROVE  views'.activeItemId[activeSection'] \in ActiveRows'
    <3> DEFINE rows == Rows(chats, chatsLoaded)
    <3>1. activeSection = s
      BY <2>4 DEF CommunityLeft, ScreenChanges
    <3>2. PICK c \in ActivatedItems(Personal) :
            views' = Forgotten(SetActiveItem(views, Personal, c, rows, Personal), s)
      BY <2>4, <3>1 DEF CommunityLeft
    <3>3. /\ activeSection' = Personal
          /\ chatsLoaded' = chatsLoaded \ {s}
          /\ chats' = chats
          /\ s # Personal
          /\ Personal \in Sections
          /\ Personal \in chatsLoaded
      BY <2>4, <3>1, WhatHolds DEF CommunityLeft, Sections
    <3>4. ActiveRows' \subseteq OwnRows(chats, chatsLoaded \cup {Personal}, Personal)
      BY <3>3 DEF ActiveRows, OwnRows, ChatsOf, Rows
    <3>5. c \in Chats \cup {NoChat} /\ c # NoChat
      BY <3>3, <3>4, ActivatedItemsFacts
    <3>6. rows \in SUBSET Chats /\ views \in Views
      BY WhatHolds DEF Rows, Types
    <3> DEFINE w == SetActiveItem(views, Personal, c, rows, Personal)
    <3>7. ItemSet(views, w, Personal, c, rows, Personal)
      BY <3>3, <3>5, <3>6, SetActiveItemFacts
    <3> HIDE DEF w
    <3>8. w \in Views /\ w.activeItemId[Personal] = c
      BY <3>3, <3>6, <3>7 DEF ItemSet, Views
    <3>9. views'.activeItemId[Personal] = c
      BY <3>2, <3>3, <3>8 DEF w, Forgotten, Views
    <3> QED
      BY <2>2, <3>3, <3>5, <3>9
  <2> QED
    BY <2>3, <2>4 DEF Next, ScreenChanges, OpenChat, ChatCreated, ChatGone, HideActiveChat,
       CommunityJoined, LeaveForOtherSection, Restart
<1> QED
  BY <1>1, Invariance, PTL DEF Spec, SwitchShowsAChat
----------------------------------------------------------------------------
(* The record *)

\* The section on screen has its rows built and its active chat recorded.
RecordHolds ==
  activeSection \in Sections =>
    /\ activeSection \in chatsLoaded
    /\ lastOpenChat[activeSection] = views.activeItemId[activeSection]

\* Setting and recording the active chat of a section go together, unless the
\* chat has no row.
LEMMA RecordingKeeps ==
  ASSUME Categorised = {}, NEW v \in Views, NEW last \in [Sections -> Chats \cup {NoChat}],
         NEW s \in Sections, NEW rows \in SUBSET Chats, NEW c \in rows \cup {NoChat},
         NEW screen \in Sections, screen # s => last[screen] = v.activeItemId[screen]
  PROVE  Recorded(last, s, c, rows, screen)[screen]
           = SetActiveItem(v, s, c, rows, screen).activeItemId[screen]
<1>1. SetActiveItem(v, s, c, rows, screen).activeItemId = [v.activeItemId EXCEPT ![s] = c]
  <2>1. c \in Chats \cup {NoChat}
    OBVIOUS
  <2>2. ItemSet(v, SetActiveItem(v, s, c, rows, screen), s, c, rows, screen)
    BY <2>1, SetActiveItemFacts
  <2> QED
    BY <2>2 DEF ItemSet
<1>2. v.activeItemId \in [Sections -> Chats \cup {NoChat}]
  BY ViewsFields
<1>3. CASE screen = s
  BY <1>1, <1>2, <1>3 DEF Recorded, OnlyCategories
<1>4. CASE screen # s
  BY <1>1, <1>2, <1>4 DEF Recorded
<1> QED
  BY <1>3, <1>4

LEMMA RecordInit == Init => RecordHolds
BY DEF Init, RecordHolds

\* The steps that open, create, lose or hide one chat.
LEMMA RecordOfChat ==
  ASSUME Categorised = {}, IInv, RecordHolds, NEW c \in Chats, NEW item,
         NEW rows \in SUBSET Chats, item \in rows \cup {NoChat},
         NEW v \in Views, v.activeItemId = views.activeItemId,
         views' = SetActiveItem(v, SectionOf[c], item, rows, activeSection),
         lastOpenChat' = Recorded(lastOpenChat, SectionOf[c], item, rows, activeSection),
         UNCHANGED <<chatsLoaded, activeSection>>
  PROVE  RecordHolds'
<1>1. SectionOf[c] \in Sections /\ lastOpenChat \in [Sections -> Chats \cup {NoChat}]
  BY WhatHolds DEF Types
<1> QED
  BY <1>1, RecordingKeeps DEF RecordHolds

LEMMA RecordOfChatGone ==
  ASSUME Categorised = {}, IInv, RecordHolds, NEW c \in Chats, ChatGone(c)
  PROVE  RecordHolds'
<1> DEFINE s == SectionOf[c]
           rows == Rows(chats', chatsLoaded)
           removed == DisableChatLoader(views, c)
<1>1. chats' = chats \ {c} /\ UNCHANGED <<chatsLoaded, activeSection>>
  BY DEF ChatGone
<1>2. rows \in SUBSET Chats /\ c \notin rows /\ c # NoChat /\ views \in Views
  BY <1>1, WhatHolds DEF Rows, Types
<1>3. removed \in Views /\ removed.activeItemId = views.activeItemId
  BY <1>2, DisableChatLoaderFacts
<1>4. CASE s \in chatsLoaded /\ views.activeItemId[s] = c
  <2>1. PICK first \in FirstChannels(views, s, rows) :
          IF first = c
          THEN views' = removed /\ UNCHANGED lastOpenChat
          ELSE /\ views' = SetActiveItem(removed, s, first, rows, activeSection)
               /\ lastOpenChat' = Recorded(lastOpenChat, s, first, rows, activeSection)
    BY <1>4 DEF ChatGone
  <2>2. first \in rows \cup {NoChat} /\ first # c
    BY <1>2, <2>1, FirstChannelsFacts
  <2> HIDE DEF rows, removed
  <2> QED
    BY <1>1, <1>2, <1>3, <2>1, <2>2, RecordOfChat
<1>5. CASE ~(s \in chatsLoaded /\ views.activeItemId[s] = c)
  <2>1. views' = removed /\ UNCHANGED lastOpenChat
    BY <1>5 DEF ChatGone
  <2> HIDE DEF removed
  <2> QED
    BY <1>1, <1>3, <2>1 DEF RecordHolds
<1> QED
  BY <1>4, <1>5

LEMMA RecordOfChatCreated ==
  ASSUME Categorised = {}, IInv, RecordHolds, NEW c \in Chats, NEW setChatAsActive \in BOOLEAN,
         ChatCreated(c, setChatAsActive)
  PROVE  RecordHolds'
<1> DEFINE s == SectionOf[c]
           rows == Rows(chats', chatsLoaded)
           added == [views EXCEPT !.active = @ \cup {c}, !.loaderActive = @ \cup {c}]
<1>1. chats' = chats \cup {c} /\ UNCHANGED <<chatsLoaded, activeSection>>
  BY DEF ChatCreated
<1>2. CASE setChatAsActive /\ s \in chatsLoaded
  <2>1. rows \in SUBSET Chats /\ c \in rows
    BY <1>1, <1>2, WhatHolds DEF Rows, Types
  <2>2. added \in Views /\ added.activeItemId = views.activeItemId
    BY WhatHolds DEF Views
  <2>3. /\ views' = SetActiveItem(added, s, c, rows, activeSection)
        /\ lastOpenChat' = Recorded(lastOpenChat, s, c, rows, activeSection)
    BY <1>2 DEF ChatCreated
  <2> HIDE DEF rows, added
  <2> QED
    BY <1>1, <2>1, <2>2, <2>3, RecordOfChat
<1>3. CASE ~(setChatAsActive /\ s \in chatsLoaded)
  <2>1. UNCHANGED <<views, lastOpenChat>>
    BY <1>3 DEF ChatCreated
  <2> QED
    BY <1>1, <2>1 DEF RecordHolds
<1> QED
  BY <1>2, <1>3

LEMMA RecordOfActivation ==
  ASSUME Categorised = {}, IInv, RecordHolds, NEW s \in Sections, ActivateSection(s)
  PROVE  RecordHolds'
<1> DEFINE rows == Rows(chats, chatsLoaded \cup {s})
<1>1. PICK c \in ActivatedItems(s) :
        /\ views' = SetActiveItem(views, s, c, rows, s)
        /\ lastOpenChat' = Recorded(lastOpenChat, s, c, rows, s)
  BY DEF ActivateSection
<1>2. activeSection' = s /\ chatsLoaded' = chatsLoaded \cup {s}
  BY DEF ActivateSection
<1>3. c \in rows \cup {NoChat}
  BY ActivatedItemsFacts DEF OwnRows
<1>4. /\ rows \in SUBSET Chats /\ views \in Views
      /\ lastOpenChat \in [Sections -> Chats \cup {NoChat}]
  BY WhatHolds DEF Types, Rows
<1> HIDE DEF rows
<1>5. lastOpenChat'[s] = views'.activeItemId[s]
  BY <1>1, <1>3, <1>4, RecordingKeeps
<1> QED
  BY <1>2, <1>5 DEF RecordHolds

\* The personal section takes the screen over; the record of the section that
\* was left goes, and so does its active chat.
LEMMA RecordOfLeaving ==
  ASSUME Categorised = {}, IInv, RecordHolds, NEW s \in Sections, CommunityLeft(s)
  PROVE  RecordHolds'
<1> DEFINE rows == Rows(chats, chatsLoaded)
           forgotten == [lastOpenChat EXCEPT ![s] = NoChat]
<1>1. s # Personal /\ chatsLoaded' = chatsLoaded \ {s}
  BY DEF CommunityLeft
<1>2. /\ Personal \in Sections /\ Personal \in chatsLoaded
      /\ rows \in SUBSET Chats /\ views \in Views
      /\ lastOpenChat \in [Sections -> Chats \cup {NoChat}]
      /\ forgotten \in [Sections -> Chats \cup {NoChat}]
  BY WhatHolds DEF Types, Rows, Sections
<1>3. CASE activeSection = s
  <2>1. PICK c \in ActivatedItems(Personal) :
          /\ views' = Forgotten(SetActiveItem(views, Personal, c, rows, Personal), s)
          /\ lastOpenChat' = Recorded(forgotten, Personal, c, rows, Personal)
    BY <1>3 DEF CommunityLeft
  <2>2. activeSection' = Personal
    BY <1>3 DEF CommunityLeft
  <2>3. c \in rows \cup {NoChat}
    <3>1. chatsLoaded \cup {Personal} = chatsLoaded
      BY <1>2
    <3> QED
      BY <1>2, <3>1, ActivatedItemsFacts DEF OwnRows
  <2> DEFINE w == SetActiveItem(views, Personal, c, rows, Personal)
  <2> HIDE DEF rows, forgotten
  <2>4. lastOpenChat'[Personal] = w.activeItemId[Personal]
    BY <1>2, <2>1, <2>3, RecordingKeeps
  <2>5. w \in Views
    BY <1>2, <2>3, SetActiveItemFacts DEF ItemSet
  <2> HIDE DEF w
  <2>6. Forgotten(w, s).activeItemId[Personal] = w.activeItemId[Personal]
    BY <1>1, <1>2, <2>5 DEF Forgotten, Views
  <2> QED
    BY <1>1, <1>2, <2>1, <2>2, <2>4, <2>6 DEF RecordHolds, w
<1>4. CASE activeSection # s
  <2>1. views' = Forgotten(views, s) /\ lastOpenChat' = forgotten /\ UNCHANGED activeSection
    BY <1>4 DEF CommunityLeft
  <2>2. ASSUME NEW t \in Sections \ {s}
        PROVE  views'.activeItemId[t] = views.activeItemId[t] /\ lastOpenChat'[t] = lastOpenChat[t]
    BY <1>2, <2>1 DEF Forgotten, Views
  <2> QED
    BY <1>1, <1>4, <2>1, <2>2 DEF RecordHolds
<1> QED
  BY <1>3, <1>4

LEMMA RecordNext ==
  ASSUME Categorised = {}, IInv, RecordHolds, [Next]_vars
  PROVE  RecordHolds'
<1>1. ASSUME NEW c \in Chats, OpenChat(c) PROVE RecordHolds'
  <2>1. Rows(chats, chatsLoaded) \in SUBSET Chats /\ views \in Views
    BY WhatHolds DEF Types, Rows
  <2> QED
    BY <1>1, <2>1, RecordOfChat DEF OpenChat
<1>2. ASSUME NEW c \in Chats, NEW setChatAsActive \in BOOLEAN, ChatCreated(c, setChatAsActive)
      PROVE  RecordHolds'
  BY <1>2, RecordOfChatCreated
<1>3. ASSUME NEW c \in Chats, ChatGone(c) PROVE RecordHolds'
  BY <1>3, RecordOfChatGone
<1>4. ASSUME NEW c \in Chats, HideActiveChat(c) PROVE RecordHolds'
  <2>1. Rows(chats, chatsLoaded) \in SUBSET Chats /\ views \in Views
    BY WhatHolds DEF Types, Rows
  <2>2. PICK shown \in Rows(chats, chatsLoaded) \cup {NoChat} :
          /\ views' = SetActiveItem(views, SectionOf[c], shown, Rows(chats, chatsLoaded),
                                    activeSection)
          /\ lastOpenChat' = Recorded(lastOpenChat, SectionOf[c], shown,
                                      Rows(chats, chatsLoaded), activeSection)
    BY <1>4 DEF HideActiveChat
  <2>3. UNCHANGED <<chatsLoaded, activeSection>>
    BY <1>4 DEF HideActiveChat
  <2> QED
    BY <2>1, <2>2, <2>3, RecordOfChat
<1>5. ASSUME NEW s \in Sections, ActivateSection(s) PROVE RecordHolds'
  BY <1>5, RecordOfActivation
<1>6. ASSUME NEW s \in Sections, CommunityJoined(s) PROVE RecordHolds'
  BY <1>6 DEF CommunityJoined, RecordHolds
<1>7. ASSUME NEW s \in Sections, CommunityLeft(s) PROVE RecordHolds'
  BY <1>7, RecordOfLeaving
<1>8. CASE LeaveForOtherSection \/ Restart
  BY <1>8 DEF LeaveForOtherSection, Restart, RecordHolds
<1>9. CASE UNCHANGED vars
  BY <1>9 DEF vars, RecordHolds
<1> QED
  BY <1>1, <1>2, <1>3, <1>4, <1>5, <1>6, <1>7, <1>8, <1>9 DEF Next

(***************************************************************************)
(* The chat that a restart opens is the one that was on screen             *)
(* (setSectionLastOpenChat in activeItemSet), as long as no community has  *)
(* categories.                                                             *)
(***************************************************************************)
THEOREM RecordIsKept ==
  ASSUME Categorised = {}
  PROVE  Spec => []RecordIsActiveChat
<1>1. RecordHolds => RecordIsActiveChat
  BY DEF RecordHolds, RecordIsActiveChat
<1>2. IInv /\ RecordHolds /\ [Next]_vars => RecordHolds'
  BY RecordNext
<1>3. Init => RecordHolds
  BY RecordInit
<1> QED
  BY <1>1, <1>2, <1>3, Invariance, PTL DEF Spec
=============================================================================
