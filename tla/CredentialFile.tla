---------------------------- MODULE CredentialFile ----------------------------
(***************************************************************************)
(* What the writers of ~/.slv/api.yml promise: whoever writes, and however *)
(* the writers overlap, the file goes through whole changes, one after the *)
(* other, and each of them changes one part and keeps the rest.            *)
(***************************************************************************)
EXTENDS Naturals

CONSTANTS Name,   \* of logins, storage access keys and settings
          None

VARIABLE file

Token == [login : Name, gen : Nat]

Init ==
  /\ file.login \in Token \cup {None}
  /\ file = [login |-> file.login, key |-> None, notes |-> {}]

\* A new login starts with its first refresh token.
SignIn(n) == file' = [file EXCEPT !.login = [login |-> n, gen |-> 1]]

\* The stored refresh token gives way to its successor, and to nothing else.
Renew ==
  /\ file.login # None
  /\ file' = [file EXCEPT !.login.gen = @ + 1]

SignOut == file' = [file EXCEPT !.login = None, !.key = None]

\* A storage access key is never replaced by another one.
SaveKey(n) ==
  /\ file.key = None
  /\ file' = [file EXCEPT !.key = n]

\* Another section; what was written there before is kept.
Write(n) == file' = [file EXCEPT !.notes = @ \cup {n}]

Next ==
  \/ \E n \in Name : SignIn(n) \/ SaveKey(n) \/ Write(n)
  \/ Renew
  \/ SignOut

Spec == Init /\ [][Next]_file
=============================================================================
