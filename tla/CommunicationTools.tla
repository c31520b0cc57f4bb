-------------------------- MODULE CommunicationTools --------------------------
(***************************************************************************)
(* The page of the communication tools, which shows one of two tabs.  Each *)
(* tab is followed from its opening; opening the other one clears the      *)
(* parameters of the address and unmounts the first.                       *)
(***************************************************************************)
EXTENDS ScriptLibrary, FriendRecords

VARIABLE tab

communicationVars == <<tab, libraryVars, friendVars>>

CommunicationInit == tab \in {"friends", "scripts"} /\ LibraryInit /\ FriendInit

CommunicationNext ==
    \/ tab = "scripts" /\ LibraryNext /\ UNCHANGED <<tab, friendVars>>
    \/ tab = "friends" /\ FriendNext /\ UNCHANGED <<tab, libraryVars>>

CommunicationSpec == CommunicationInit /\ [][CommunicationNext]_communicationVars

\* Neither tab tells its reader that there is nothing, or fewer records than
\* there are, when it has nothing left to wait for.
ListsAreHonest == ScriptsAreFound /\ FriendsAreFound
=============================================================================
