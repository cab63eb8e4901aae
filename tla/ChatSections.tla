----------------------------- MODULE ChatSections -----------------------------
(***************************************************************************)
(* Which chat of which section is on screen, and which chats keep their    *)
(* view in memory.                                                         *)
(*                                                                         *)
(* The main module has one chat section module per section: the personal   *)
(* chats, and each community that was joined.  A section remembers its     *)
(* active chat, also while another section is on screen; the rows of its   *)
(* chats carry the flags active (its view is visible) and loaderActive     *)
(* (its view exists).  A view is costly, so the loader deactivator keeps a *)
(* queue of the chats that may have one, and takes the view of the chat at *)
(* the end of the queue away when the queue grows beyond its limit.        *)
(*                                                                         *)
(* Every handler runs to its end on the main thread, so each is one step;  *)
(* what is hard is the order in which they come.  A handler is written as  *)
(* an operator that takes the state of the chats' views and returns the    *)
(* next one, since one handler calls another several times.                *)
(***************************************************************************)
EXTENDS Naturals, FiniteSets, Sequences

CONSTANTS
  Personal,         \* the section of the personal chats
  Communities,      \* the sections that can be joined and left
  OtherSection,     \* the wallet, the settings, ...: no chats
  Chats,            \* every chat there may be
  NoChat,           \* the empty chat id
  SectionOf,        \* the section of each chat
  Categorised,      \* communities that have a category, which is a row too
  MaxChatsInMemory  \* MAX_CHATS_IN_MEMORY

Sections == {Personal} \cup Communities

ASSUME SectionsAssumption ==
  /\ Personal \notin Communities
  /\ OtherSection \notin Sections
  /\ NoChat \notin Chats
  /\ SectionOf \in [Chats -> Sections]
  /\ Categorised \subseteq Communities
  /\ MaxChatsInMemory \in Nat \ {0}

VARIABLES
  chats,         \* chat service: the chats that exist
  sections,      \* main module: the sections that have a module
  chatsLoaded,   \* the sections whose rows were built
  activeSection, \* main module: the section on screen
  lastOpenChat,  \* settings: the chat to open a section with, kept on disk
  views,         \* active chats, flags and queue, see Views
  createdBehind  \* history: the chats created as the active one of a section
                 \* whose rows were built and that was not on screen

vars == <<chats, sections, chatsLoaded, activeSection, lastOpenChat, views, createdBehind>>

Views == [activeItemId : [Sections -> Chats \cup {NoChat}],
          active : SUBSET Chats,
          loaderActive : SUBSET Chats,
          keepInMemory : Seq(Chats)]

TypeOK ==
  /\ chats \subseteq Chats
  /\ sections \subseteq Sections
  /\ chatsLoaded \subseteq sections
  /\ activeSection \in Sections \cup {OtherSection}
  /\ lastOpenChat \in [Sections -> Chats \cup {NoChat}]
  /\ views \in Views
  /\ createdBehind \subseteq Chats

ChatsOf(s) == {c \in Chats : SectionOf[c] = s}

\* The chats among existing that have a row, once the sections in loaded are built.
Rows(existing, loaded) == {c \in existing : SectionOf[c] \in loaded}

Kept(v) == {v.keepInMemory[i] : i \in DOMAIN v.keepInMemory}
----------------------------------------------------------------------------
(* The queue of chats in memory *)

\* A variant: the flag that makes the view visible stays.
DisableChatLoaderKeepingActive(v, c) ==
  [v EXCEPT !.loaderActive = @ \ {c}]

DisableChatLoader(v, c) ==
  [v EXCEPT !.loaderActive = @ \ {c}, !.active = @ \ {c}]

\* A variant: one chat more than the limit.
AddChatInMemoryLate(v, c) ==
  LET queue == <<c>> \o v.keepInMemory IN
  IF c \in Kept(v) THEN v
  ELSE IF Len(queue) > MaxChatsInMemory + 1
       THEN DisableChatLoader([v EXCEPT !.keepInMemory = SubSeq(queue, 1, Len(queue) - 1)],
                              queue[Len(queue)])
       ELSE [v EXCEPT !.keepInMemory = queue]

\* addChatInMemory, and onDeactivateChatLoader for what falls off the queue.  A
\* chat that is in the queue keeps its place.
AddChatInMemory(v, c) ==
  LET queue == <<c>> \o v.keepInMemory IN
  IF c \in Kept(v) THEN v
  ELSE IF Len(queue) > MaxChatsInMemory
       THEN DisableChatLoader([v EXCEPT !.keepInMemory = SubSeq(queue, 1, Len(queue) - 1)],
                              queue[Len(queue)])
       ELSE [v EXCEPT !.keepInMemory = queue]
----------------------------------------------------------------------------
(* The active chat of a section *)

\* The model's setActiveItem: the loader is switched on together with the flag.
SetActiveRow(v, s, c) ==
  [v EXCEPT !.active = (@ \ ChatsOf(s)) \cup {c},
            !.loaderActive = IF c \in v.active THEN @ ELSE @ \cup {c}]

\* A variant: the chat that is to be shown is not looked up.
ActiveItemSetUnchecked(v, s, c, rows) == AddChatInMemory(SetActiveRow(v, s, c), c)

\* activeItemSet: the rows are left alone when there is no active chat, and
\* when the chat has no row.
ActiveItemSet(v, s, c, rows) ==
  IF c \in rows THEN AddChatInMemory(SetActiveRow(v, s, c), c) ELSE v

\* setActiveItem: only the section on screen acts on it.
SetActiveItem(v, s, c, rows, screen) ==
  LET w == [v EXCEPT !.activeItemId[s] = c] IN
  IF screen = s THEN ActiveItemSet(w, s, c, rows) ELSE w

\* A variant: the record stays when there is no active chat.
RecordedKeeping(last, s, c, rows, screen) ==
  IF screen = s /\ c \in rows THEN [last EXCEPT ![s] = c] ELSE last

OnlyCategories(s, rows) == s \in Categorised /\ rows \cap ChatsOf(s) = {}

\* What activeItemSet leaves in the settings of the section; nobody calls it for
\* a section that has categories only.
Recorded(last, s, c, rows, screen) ==
  IF screen = s /\ c \in rows \cup {NoChat} /\ ~ OnlyCategories(s, rows)
  THEN [last EXCEPT ![s] = c]
  ELSE last

\* setFirstChannelAsActive: a section that has categories only keeps what it
\* has.  The order of the rows is the user's, so any chat may be the first.
FirstChannels(v, s, rows) ==
  IF OnlyCategories(s, rows) THEN {v.activeItemId[s]}
  ELSE IF rows \cap ChatsOf(s) = {} THEN {NoChat} ELSE rows \cap ChatsOf(s)

\* buildChatSectionUI: the chat that was open last, or the first one if there is
\* no record of it.  The section is not on screen yet.
SelectedItems(s) ==
  LET own == chats \cap ChatsOf(s) IN
  IF lastOpenChat[s] = NoChat /\ own # {} THEN own
  ELSE {IF lastOpenChat[s] \in own THEN lastOpenChat[s] ELSE NoChat}

\* The views after a section was put on screen, with one of two chats active:
\* the one it had (after the rows were built, if need be), or the first one.
ActivatedItems(s) ==
  LET rows == Rows(chats, chatsLoaded \cup {s})
      had == IF s \in chatsLoaded THEN {views.activeItemId[s]} ELSE SelectedItems(s) IN
  (had \ {NoChat}) \cup (IF NoChat \in had THEN FirstChannels(views, s, rows) ELSE {})
----------------------------------------------------------------------------
(* Actions *)

\* The user, a link or a notification opens a chat, on screen or not; and
\* communityJoined the first one of a community it has just put on screen, whose
\* row was built with the others.
OpenChat(c) ==
  LET s == SectionOf[c]
      rows == Rows(chats, chatsLoaded) IN
  /\ c \in rows
  /\ views' = SetActiveItem(views, s, c, rows, activeSection)
  /\ lastOpenChat' = Recorded(lastOpenChat, s, c, rows, activeSection)
  /\ UNCHANGED <<chats, sections, chatsLoaded, activeSection, createdBehind>>

\* setActiveSection and onActiveSectionChange of every section module.
ActivateSection(s) ==
  LET rows == Rows(chats, chatsLoaded \cup {s}) IN
  /\ s \in sections
  /\ s # activeSection
  /\ activeSection' = s
  /\ chatsLoaded' = chatsLoaded \cup {s}
  /\ \E c \in ActivatedItems(s) :
       /\ views' = SetActiveItem(views, s, c, rows, s)
       /\ lastOpenChat' = Recorded(lastOpenChat, s, c, rows, s)
  /\ UNCHANGED <<chats, sections, createdBehind>>

LeaveForOtherSection ==
  /\ activeSection # OtherSection
  /\ activeSection' = OtherSection
  /\ UNCHANGED <<chats, sections, chatsLoaded, lastOpenChat, views, createdBehind>>

\* addOrUpdateChat for a new chat: with SIGNAL_CHAT_CREATED or
\* SIGNAL_COMMUNITY_CHANNEL_CREATED it is to be the active one, with
\* SIGNAL_CHAT_UPDATE it is not.
ChatCreated(c, setChatAsActive) ==
  LET s == SectionOf[c]
      rows == Rows(chats', chatsLoaded)
      added == [views EXCEPT !.active = @ \cup {c}, !.loaderActive = @ \cup {c}] IN
  /\ c \notin chats
  /\ chats' = chats \cup {c}
  /\ IF setChatAsActive /\ s \in chatsLoaded
     THEN /\ views' = SetActiveItem(added, s, c, rows, activeSection)
          /\ lastOpenChat' = Recorded(lastOpenChat, s, c, rows, activeSection)
     ELSE UNCHANGED <<views, lastOpenChat>>
  /\ createdBehind' = IF setChatAsActive /\ s \in chatsLoaded \ {activeSection}
                      THEN createdBehind \cup {c}
                      ELSE createdBehind
  /\ UNCHANGED <<sections, chatsLoaded, activeSection>>

\* A variant: the active chat of the section is not looked at.
ChatGoneUnnoticed(c) ==
  /\ c \in chats
  /\ chats' = chats \ {c}
  /\ createdBehind' = createdBehind \ {c}
  /\ views' = DisableChatLoader(views, c)
  /\ UNCHANGED <<sections, chatsLoaded, activeSection, lastOpenChat>>

\* onCommunityChannelDeletedOrChatLeft: the row goes with its flags, but not
\* the place in the queue.
ChatGone(c) ==
  LET s == SectionOf[c]
      rows == Rows(chats', chatsLoaded)
      removed == DisableChatLoader(views, c) IN
  /\ c \in chats
  /\ chats' = chats \ {c}
  /\ createdBehind' = createdBehind \ {c}
  /\ IF s \in chatsLoaded /\ views.activeItemId[s] = c
     THEN \E first \in FirstChannels(views, s, rows) :
            IF first = c  \* no channel: setActiveItem is not called
            THEN views' = removed /\ UNCHANGED lastOpenChat
            ELSE /\ views' = SetActiveItem(removed, s, first, rows, activeSection)
                 /\ lastOpenChat' = Recorded(lastOpenChat, s, first, rows, activeSection)
     ELSE views' = removed /\ UNCHANGED lastOpenChat
  /\ UNCHANGED <<sections, chatsLoaded, activeSection>>

\* refreshHiddenBecauseNotPermittedState: the visible chat of a community may no
\* longer be seen, so the first other one that may becomes active, or none.
HideActiveChat(c) ==
  LET s == SectionOf[c]
      rows == Rows(chats, chatsLoaded) IN
  /\ s \in Communities
  /\ c \in rows \cap views.active
  /\ \E shown \in ((rows \cap ChatsOf(s)) \ {c}) \cup {NoChat} :
       /\ views' = SetActiveItem(views, s, shown, rows, activeSection)
       /\ lastOpenChat' = Recorded(lastOpenChat, s, shown, rows, activeSection)
  /\ UNCHANGED <<chats, sections, chatsLoaded, activeSection, createdBehind>>

\* communityJoined, without the switch to the new section: that is the next step
\* of the handler, but also a step of its own.
CommunityJoined(s) ==
  /\ s \in Communities \ sections
  /\ sections' = sections \cup {s}
  /\ UNCHANGED <<chats, chatsLoaded, activeSection, lastOpenChat, views, createdBehind>>

\* The section module is deleted with its rows.
Forgotten(v, s) ==
  [v EXCEPT !.activeItemId[s] = NoChat,
            !.active = @ \ ChatsOf(s), !.loaderActive = @ \ ChatsOf(s)]

\* communityLeft: the personal section takes the screen over.
CommunityLeft(s) ==
  LET rows == Rows(chats, chatsLoaded)
      forgotten == [lastOpenChat EXCEPT ![s] = NoChat] IN
  /\ s \in Communities \cap sections
  /\ sections' = sections \ {s}
  /\ chatsLoaded' = chatsLoaded \ {s}
  /\ createdBehind' = createdBehind \ ChatsOf(s)
  /\ IF activeSection = s
     THEN /\ activeSection' = Personal
          /\ \E c \in ActivatedItems(Personal) :
               /\ views' = Forgotten(SetActiveItem(views, Personal, c, rows, Personal), s)
               /\ lastOpenChat' = Recorded(forgotten, Personal, c, rows, Personal)
     ELSE /\ views' = Forgotten(views, s)
          /\ lastOpenChat' = forgotten
          /\ UNCHANGED activeSection
  /\ UNCHANGED chats

\* The state the program starts in: the settings are read from disk, and the
\* rows of the personal section are built.
Started(item) ==
  [activeItemId |-> [s \in Sections |-> IF s = Personal THEN item ELSE NoChat],
   active |-> {}, loaderActive |-> {}, keepInMemory |-> <<>>]

Restart ==
  /\ chatsLoaded' = {Personal}
  /\ activeSection' = OtherSection
  /\ \E item \in SelectedItems(Personal) : views' = Started(item)
  /\ createdBehind' = {}
  /\ UNCHANGED <<chats, sections, lastOpenChat>>
----------------------------------------------------------------------------
Init ==
  /\ chats \in SUBSET Chats
  /\ sections \in {{Personal} \cup joined : joined \in SUBSET Communities}
  /\ chatsLoaded = {Personal}
  /\ activeSection = OtherSection
  /\ lastOpenChat = [s \in Sections |-> NoChat]
  /\ \E item \in SelectedItems(Personal) : views = Started(item)
  /\ createdBehind = {}

Next ==
  \/ \E c \in Chats : \/ OpenChat(c)
                      \/ \E setChatAsActive \in BOOLEAN : ChatCreated(c, setChatAsActive)
                      \/ ChatGone(c)
                      \/ HideActiveChat(c)
  \/ \E s \in Sections : ActivateSection(s) \/ CommunityJoined(s) \/ CommunityLeft(s)
  \/ LeaveForOtherSection
  \/ Restart

Spec == Init /\ [][Next]_vars
----------------------------------------------------------------------------
(* Properties *)

ActiveRows == Rows(chats, chatsLoaded) \cap ChatsOf(activeSection)

(***************************************************************************)
(* The active chat of the section on screen is visible, it alone is, and   *)
(* its view exists: no chat that is opened elsewhere pushes it out of the  *)
(* queue of loader_deactivator.nim for good, and a section that comes back *)
(* loads the view again that was taken away meanwhile.                     *)
(***************************************************************************)
ActiveChatIsShown ==
  activeSection \in Sections /\ views.activeItemId[activeSection] \in ActiveRows =>
    /\ views.active \cap ActiveRows = {views.activeItemId[activeSection]}
    /\ views.activeItemId[activeSection] \in views.loaderActive

(***************************************************************************)
(* What the queue does keep: the views, those apart of chats that were     *)
(* created behind the screen and were not opened since, are no more than   *)
(* MAX_CHATS_IN_MEMORY.  In particular nothing that is opened, closed,     *)
(* created on screen, hidden or left makes the queue forget a view.        *)
(***************************************************************************)
CountedWithinLimit ==
  Cardinality(views.loaderActive \ (createdBehind \ Kept(views))) <= MaxChatsInMemory

(***************************************************************************)
(* The record that a section is opened with after a restart is the chat it *)
(* shows (setSectionLastOpenChat, removeSectionChatRecord).                *)
(***************************************************************************)
RecordIsActiveChat ==
  activeSection \in Sections /\ views.activeItemId[activeSection] \in ActiveRows \cup {NoChat} =>
    lastOpenChat[activeSection] = views.activeItemId[activeSection]

\* A step that puts a section on screen.
ScreenChanges == activeSection' # activeSection /\ activeSection' \in Sections

(***************************************************************************)
(* Who switches to a section that has chats gets to see one of them.       *)
(***************************************************************************)
SwitchShowsAChat ==
  [][ScreenChanges /\ ActiveRows' # {} =>
       views'.activeItemId[activeSection'] \in ActiveRows']_vars

(***************************************************************************)
(* A section is never put on screen with an active chat it does not have:  *)
(* "Should never be here" (chat_section/module.nim:454).                   *)
(***************************************************************************)
ActiveItemExists ==
  [][ScreenChanges =>
       views'.activeItemId[activeSection'] \in ActiveRows' \cup {NoChat}]_vars
----------------------------------------------------------------------------
(* The inductive invariant behind the safety properties *)

\* The active chat of a section whose rows were built has a row there.
ItemsExist ==
  \A s \in chatsLoaded :
    views.activeItemId[s] \in (Rows(chats, chatsLoaded) \cap ChatsOf(s)) \cup {NoChat}

\* Every view that exists is in the queue, which is not too long: it is taken
\* away when its turn comes.  Only chats in behind escape.
LoadedAreKept(v, behind) ==
  /\ v.loaderActive \subseteq Kept(v) \cup behind
  /\ Len(v.keepInMemory) <= MaxChatsInMemory

(***************************************************************************)
(* What every handler of chat_section/module.nim keeps: the flags of the   *)
(* rows agree with each other, with the active chats and with the queue.   *)
(* ChatSectionsProofs proves it inductive, for every number of sections    *)
(* and chats and every limit.                                              *)
(***************************************************************************)
IInv ==
  /\ TypeOK
  /\ Personal \in chatsLoaded
  /\ views.active \subseteq views.loaderActive \cap chats
  /\ Categorised = {} => ItemsExist /\ ActiveChatIsShown
  /\ LoadedAreKept(views, createdBehind)
=============================================================================
