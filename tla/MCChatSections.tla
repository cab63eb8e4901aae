-------------------------- MODULE MCChatSections --------------------------
(* Instances of ChatSections for TLC: two sections with two chats each. *)
EXTENDS ChatSections, TLC

CONSTANTS community, p1, p2, k1, k2

OneCommunity == {community}

FourChats == {p1, p2, k1, k2}

TwoEach == (p1 :> Personal) @@ (p2 :> Personal) @@ (k1 :> community) @@ (k2 :> community)

None == {}
=============================================================================
