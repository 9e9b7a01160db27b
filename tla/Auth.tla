-------------------------------- MODULE Auth --------------------------------
(***************************************************************************)
(* Sign-up and sign-in (auth/auth.go).  Who may sign up is in a table of   *)
(* candidates, who has is in a table of users.  The gRPC server runs every *)
(* call in a goroutine of its own; each statement to the database is a     *)
(* step, may fail, and may be carried out although its answer is lost; and *)
(* the process may end at any time.                                        *)
(*                                                                         *)
(* A hashed password stands for the password it is the hash of.  Sign-ups  *)
(* with an empty name, mail or password, which are refused before any      *)
(* statement, are left out.                                                *)
(***************************************************************************)
CONSTANTS Ids,         \* what a request may give as its id,
          Candidates,  \* the ids in the table of candidates
          Passwords,
          Calls,       \* the calls made: each id is used for one call
          NoUser,      \* no row in the table of users
          NoId         \* or not: the empty id, also of a call not yet made

ASSUME AuthAssumption ==
  /\ Candidates \subseteq Ids
  /\ NoUser \notin Passwords
  /\ NoId \notin Ids

VARIABLES registered,  \* [Candidates -> BOOLEAN]: the column of that name
          users,       \* [Ids -> Passwords or NoUser]
          calls,       \* [Calls -> where the call is, for whom]; a granted
                       \* sign-in is for the user whose token it gets
          tokens       \* the ids for which an unexpired token was issued

vars == << registered, users, calls, tokens >>

Init ==
  /\ registered = [i \in Candidates |-> FALSE]
  /\ users = [i \in Ids |-> NoUser]
  /\ calls = [c \in Calls |-> [at |-> "new", id |-> NoId, password |-> NoUser]]
  /\ tokens = {}

Goto(c, place) == calls' = [calls EXCEPT ![c].at = place]
Answer(c, place, id, password) ==
  calls' = [calls EXCEPT ![c] = [at |-> place, id |-> id, password |-> password]]
At(c, place) == calls[c].at = place

----------------------------------------------------------------------------
(* SignUp                                                                  *)

\* Variants for the mutation check: a claim that is not found passes ...
CheckClaimFound(c, id, password, genuine) ==
  /\ At(c, "new")
  /\ Answer(c, IF id \in Candidates => genuine /\ ~registered[id]
                 THEN "checked" ELSE "refused", id, password)
  /\ UNCHANGED << registered, users, tokens >>

\* ... and the candidate is marked before the user is saved.
CheckClaimAndMark(c, id, password, genuine) ==
  /\ At(c, "new")
  /\ id \in Candidates /\ genuine /\ ~registered[id]
  /\ registered' = [registered EXCEPT ![id] = TRUE]
  /\ Answer(c, "checked", id, password)
  /\ UNCHANGED << users, tokens >>

\* The claim is looked up by id, name and mail: genuine says that the name
\* and the mail are those of the candidate.
Has(id, genuine) == id \in Candidates /\ genuine

\* A failed statement refuses; so does, before it, an empty id, which no
\* candidate has.
CheckClaim(c, id, password, genuine) ==
  /\ At(c, "new")
  /\ \E failed \in BOOLEAN :
       LET passes == ~failed /\ Has(id, genuine) /\ ~registered[id]
       IN  Answer(c, IF passes THEN "checked" ELSE "refused", id, password)
  /\ UNCHANGED << registered, users, tokens >>

\* Variants: a row of the same id is written over ...
SaveOver(c) ==
  /\ At(c, "checked")
  /\ \E place \in {"saved", "unsure"} :
       /\ users' = [users EXCEPT ![calls[c].id] = calls[c].password]
       /\ Goto(c, place)
  /\ UNCHANGED << registered, tokens >>

\* ... and the error of the insert is not looked at.
SaveIgnoringError(c) ==
  /\ At(c, "checked")
  /\ \/ /\ users[calls[c].id] = NoUser
        /\ users' = [users EXCEPT ![calls[c].id] = calls[c].password]
     \/ UNCHANGED users
  /\ Goto(c, "saved")
  /\ UNCHANGED << registered, tokens >>

\* The id is the primary key: the insert fails where there is a row.
InsertOne(id, password) ==
  /\ users[id] = NoUser
  /\ users' = [users EXCEPT ![id] = password]

\* It may also fail without, or be carried out and its answer be lost: the
\* caller is refused and a user saved ("unsure").
Save(c) ==
  /\ At(c, "checked")
  /\ \/ /\ InsertOne(calls[c].id, calls[c].password)
        /\ \/ Goto(c, "saved")
           \/ Goto(c, "unsure")
     \/ /\ UNCHANGED users
        /\ Goto(c, "refused")
  /\ UNCHANGED << registered, tokens >>

\* The candidate is marked; whether that succeeds makes no difference to
\* the answer.
Register(c) ==
  /\ At(c, "saved")
  /\ \E failed \in BOOLEAN :
       registered' = [registered EXCEPT ![calls[c].id] = @ \/ ~failed]
  /\ Goto(c, "welcome")
  /\ UNCHANGED << users, tokens >>

----------------------------------------------------------------------------
(* SignIn, with the interceptor before it.                                 *)

\* The ids of the rows that may be found: that of the id, or none and an
\* error.  A bean with an empty id is no condition, and finds any row.
FindByKey(id) == {i \in Ids : users[i] # NoUser /\ (id = NoId \/ i = id)}

\* Variant: the password is not compared.
AnyPassword(hashed, password) == TRUE

\* The password is the one that was hashed when the user signed up.
IsCorrectPassword(hashed, password) == hashed = password

\* The token of an id is still valid.
VerifyToken(id) == id \in tokens

\* A request with a token that is still valid is refused before the handler,
\* whoever the token was issued to; held is NoId where there is none.
verifyTokenInterceptor(held) == held # NoId => ~VerifyToken(held)

\* The token is for the user that was found; the statement may also fail.
SignIn(c, id, password, held) ==
  /\ At(c, "new")
  /\ \/ \E row \in FindByKey(id) :
          /\ verifyTokenInterceptor(held)
          /\ IsCorrectPassword(users[row], password)
          /\ Answer(c, "token", row, password)
          /\ tokens' = tokens \cup {row}
     \/ /\ Answer(c, "refused", id, password)
        /\ UNCHANGED tokens
  /\ UNCHANGED << registered, users >>

\* The duration of the tokens of a user is over.
Expire(id) ==
  /\ id \in tokens
  /\ tokens' = tokens \ {id}
  /\ UNCHANGED << registered, users, calls >>

----------------------------------------------------------------------------

\* The process ends; the tables stay, and the tokens, which nobody keeps.
Crash ==
  /\ \E c \in Calls : At(c, "checked") \/ At(c, "saved")
  /\ calls' = [c \in Calls |->
                 CASE At(c, "checked") -> [calls[c] EXCEPT !.at = "lost"]
                   [] At(c, "saved")   -> [calls[c] EXCEPT !.at = "unsure"]
                   [] OTHER            -> calls[c]]
  /\ UNCHANGED << registered, users, tokens >>

Next ==
  \/ \E c \in Calls, id \in Ids \cup {NoId}, password \in Passwords :
       \/ \E genuine \in BOOLEAN : CheckClaim(c, id, password, genuine)
       \/ \E held \in Ids \cup {NoId} : SignIn(c, id, password, held)
  \/ \E c \in Calls : Save(c) \/ Register(c)
  \/ \E id \in Ids : Expire(id)
  \/ Crash

Spec == Init /\ [][Next]_vars

----------------------------------------------------------------------------
(* Properties.                                                             *)

\* The calls that have saved a user, whatever their callers were told.
Saved == {"saved", "welcome", "unsure"}
Places == Saved \cup {"new", "checked", "token", "refused", "lost"}

\* The state keeps its shape; in particular only a call for a candidate is
\* ever past the check, and only one with an id gets a token.
TypeOK ==
  /\ registered \in [Candidates -> BOOLEAN]
  /\ users \in [Ids -> Passwords \cup {NoUser}]
  /\ calls \in [Calls -> [at : Places, id : Ids \cup {NoId},
                          password : Passwords \cup {NoUser}]]
  /\ tokens \subseteq Ids
  /\ \A c \in Calls :
       /\ calls[c].at # "new" => calls[c].password \in Passwords
       /\ At(c, "token") => calls[c].id \in Ids
       /\ calls[c].at \in Saved \cup {"checked"} => calls[c].id \in Candidates

\* Of all calls that sign up one id, however they overlap, at most one saves
\* a user and may be answered Ok, and the password it gave is the one that
\* signs in from then on: the check of the registered column alone would let
\* two of them pass.
OneWelcome ==
  \A c \in Calls : calls[c].at \in Saved =>
    /\ users[calls[c].id] = calls[c].password
    /\ \A d \in Calls : calls[d].at \in Saved /\ calls[d].id = calls[c].id => c = d

\* A candidate is registered only when there is a user to sign in as, also
\* when the process ends between the two statements: nobody is locked out
\* by a column that was set too early.
RegisteredHasUser == \A i \in Candidates : registered[i] => users[i] # NoUser

\* The password of a user never changes: no later sign-up, refused or not,
\* takes an account over.
PasswordStays == [][\A i \in Ids : users[i] # NoUser => users'[i] = users[i]]_vars

\* A token is one of a user whose password the call gave: the password that
\* is in the table, and with which a sign-up of that candidate saved the user.
\* A call that was only refused, by the check, the insert or a sign-in before,
\* earns nothing.  (Whose token it is the call says by its id, or, with an
\* empty one, does not say.)
TokenIsEarned ==
  \A c \in Calls : At(c, "token") =>
    /\ users[calls[c].id] = calls[c].password
    /\ \E d \in Calls : /\ calls[d].at \in Saved
                        /\ calls[d].id = calls[c].id
                        /\ calls[d].password = calls[c].password
=============================================================================
