----------------------------- MODULE MCDispatch -----------------------------
(* Instances of Dispatch for TLC.                                          *)
EXTENDS Dispatch

Message(user, kind, n) == [user |-> user, kind |-> kind, n |-> n]
Turn(via, user, n) == [via |-> via, user |-> user, n |-> n]

\* Two messages of one user, of which the first may come again, and one of another.
MCMessages == {Message("ann", "dm", 1), Message("ann", "mention", 2), Message("bob", "dm", 1)}

MCRepeated == {Message("ann", "dm", 1)}

MCDirect == {Turn("ask", "ann", 1), Turn("telegram", "ann", 1), Turn("telegram", "ann", 2),
             Turn("cli", "local", 1), Turn("cli", "local", 2)}
=============================================================================
