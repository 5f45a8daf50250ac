------------------------------ MODULE ClientFeed ------------------------------
(***************************************************************************)
(* What a browser on /ws/lingo may rely on, whatever the hub does inside   *)
(* (internal/ws/hub.go): a status that was announced is owed, at once, to  *)
(* every member; a member is given what it is owed, in order and with      *)
(* nothing skipped; whoever cannot be served leaves for good and loses     *)
(* only the end.  WsHub implements it, serving its clients one at a time.  *)
(***************************************************************************)
EXTENDS Integers, Sequences

CONSTANTS Clients, Messages

VARIABLES
    members,   \* the clients that are owed what comes next
    gone,      \* the clients that were members once
    owed,      \* what each client is still to be given, oldest first
    given      \* what each client was given

fvars == <<members, gone, owed, given>>

Init == /\ members = {} /\ gone = {}
        /\ owed = [c \in Clients |-> <<>>]
        /\ given = [c \in Clients |-> <<>>]

\* A connection is a member once in its life.
Admit(c) == /\ c \notin members \cup gone
            /\ members' = members \cup {c}
            /\ UNCHANGED <<gone, owed, given>>

Announce == \E m \in Messages :
    /\ owed' = [c \in Clients |-> IF c \in members THEN Append(owed[c], m)
                                                   ELSE owed[c]]
    /\ UNCHANGED <<members, gone, given>>

Give(c) == /\ owed[c] # <<>>
           /\ given' = [given EXCEPT ![c] = Append(@, Head(owed[c]))]
           /\ owed' = [owed EXCEPT ![c] = Tail(@)]
           /\ UNCHANGED <<members, gone>>

\* The last message owed may be the one there was no room for.
Leave(c) == /\ c \in members
            /\ members' = members \ {c} /\ gone' = gone \cup {c}
            /\ \/ UNCHANGED owed
               \/ /\ owed[c] # <<>>
                  /\ owed' = [owed EXCEPT ![c] = SubSeq(@, 1, Len(@) - 1)]
            /\ UNCHANGED given

Next == Announce \/ \E c \in Clients : Admit(c) \/ Give(c) \/ Leave(c)

Spec == Init /\ [][Next]_fvars
=============================================================================
