----------------------------- MODULE AuthProofs -----------------------------
(***************************************************************************)
(* Sign-up and sign-in are safe for any number of ids, passwords and       *)
(* overlapping calls.  The check of the registered column takes no part in *)
(* the argument: it is the primary key of the table of users that keeps    *)
(* two sign-ups of one candidate apart.                                    *)
(***************************************************************************)
EXTENDS Auth, TLAPS

\* A row of the table of users was written by a call that has saved it.
UserHasCall ==
  \A i \in Ids : users[i] # NoUser =>
    \E d \in Calls : /\ calls[d].at \in Saved
                     /\ calls[d].id = i
                     /\ calls[d].password = users[i]

Safe == /\ TypeOK
        /\ OneWelcome
        /\ RegisteredHasUser
        /\ UserHasCall
        /\ TokenIsEarned

CallRecords == [at : Places, id : Ids \cup {NoId}, password : Passwords \cup {NoUser}]

\* In the first state no call was made and no user saved.
LEMMA InitSafe == Init => Safe
BY AuthAssumption DEF Init, Safe, TypeOK, OneWelcome, RegisteredHasUser,
   UserHasCall, TokenIsEarned, Places, Saved, At

\* A step that only moves one call c from a place where it was not past the
\* insert to one that is not past it either keeps all but the types.
LEMMA CheckKeeps ==
  ASSUME Safe, NEW c \in Calls, NEW id \in Ids \cup {NoId},
         NEW password \in Passwords, NEW genuine \in BOOLEAN, CheckClaim(c, id, password, genuine)
  PROVE  Safe'
<1>1. PICK failed \in BOOLEAN :
        calls' = [calls EXCEPT ![c] =
                    [at |-> IF ~failed /\ id \in Candidates /\ genuine /\ ~registered[id]
                              THEN "checked" ELSE "refused",
                     id |-> id, password |-> password]]
  BY DEF CheckClaim, Has, Answer
<1>2. calls[c].at = "new" /\ UNCHANGED << registered, users, tokens >>
  BY DEF CheckClaim, At
<1>3. /\ calls'[c].at \in {"checked", "refused"}
      /\ calls'[c].id = id
      /\ calls'[c].password = password
      /\ calls'[c].at = "checked" => id \in Candidates
      /\ calls' \in [Calls -> CallRecords]
      /\ \A d \in Calls \ {c} : calls'[d] = calls[d]
  BY <1>1 DEF Safe, TypeOK, CallRecords, Places
<1>4. TypeOK'
  BY <1>2, <1>3 DEF Safe, TypeOK, CallRecords, Saved, At
<1>5. OneWelcome'
  BY <1>2, <1>3 DEF Safe, OneWelcome, Saved
<1>6. RegisteredHasUser'
  BY <1>2 DEF Safe, RegisteredHasUser
<1>7. UserHasCall'
  BY <1>2, <1>3 DEF Safe, UserHasCall, Saved
<1>8. TokenIsEarned'
  BY <1>2, <1>3 DEF Safe, TokenIsEarned, Saved, At
<1> QED BY <1>4, <1>5, <1>6, <1>7, <1>8 DEF Safe

\* The insert finds no row of the same id, so no other call has saved one.
LEMMA SaveKeeps ==
  ASSUME Safe, NEW c \in Calls, Save(c)
  PROVE  Safe'
<1> DEFINE i == calls[c].id
<1>1. /\ calls[c].at = "checked"
      /\ UNCHANGED << registered, tokens >>
      /\ i \in Candidates /\ i \in Ids /\ calls[c].password \in Passwords
      /\ calls[c].password # NoUser
  BY AuthAssumption DEF Save, At, Safe, TypeOK
<1>2. Goto(c, "saved") \/ Goto(c, "unsure") \/ Goto(c, "refused")
  BY DEF Save
<1>3. /\ calls'[c].at \in {"saved", "unsure", "refused"}
      /\ Goto(c, "saved") => calls'[c].at = "saved"
      /\ Goto(c, "unsure") => calls'[c].at = "unsure"
      /\ Goto(c, "refused") => calls'[c].at = "refused"
      /\ calls'[c].id = i
      /\ calls'[c].password = calls[c].password
      /\ calls' \in [Calls -> CallRecords]
      /\ \A d \in Calls \ {c} : calls'[d] = calls[d]
  BY <1>2 DEF Goto, Safe, TypeOK, CallRecords, Places, Saved
<1>4. CASE /\ users[i] = NoUser
           /\ users' = [users EXCEPT ![i] = calls[c].password]
           /\ Goto(c, "saved") \/ Goto(c, "unsure")
  <2>1. /\ users'[i] = calls[c].password
        /\ \A j \in Ids \ {i} : users'[j] = users[j]
        /\ users' \in [Ids -> Passwords \cup {NoUser}]
    BY <1>1, <1>4 DEF Safe, TypeOK
  <2>2. \A d \in Calls : calls[d].at \in Saved => calls[d].id # i
    BY <1>4, AuthAssumption DEF Safe, OneWelcome, TypeOK, Saved
  <2>3. TypeOK'
    BY <1>1, <1>3, <2>1 DEF Safe, TypeOK, CallRecords, Saved, At
  <2>4. OneWelcome'
    <3> SUFFICES ASSUME NEW b \in Calls, calls'[b].at \in Saved
                 PROVE  /\ users'[calls'[b].id] = calls'[b].password
                        /\ \A d \in Calls : calls'[d].at \in Saved /\ calls'[d].id = calls'[b].id
                                              => b = d
      BY DEF OneWelcome, Saved
    <3>1. CASE b = c
      BY <3>1, <1>3, <2>1, <2>2
    <3>2. CASE b # c
      <4>1. /\ calls'[b] = calls[b] /\ calls[b].at \in Saved
            /\ calls[b].id \in Ids /\ calls[b].id # i
        BY <3>2, <1>3, <2>2, AuthAssumption DEF Safe, TypeOK
      <4>2. /\ users[calls[b].id] = calls[b].password
            /\ \A d \in Calls : calls[d].at \in Saved /\ calls[d].id = calls[b].id => b = d
        BY <4>1 DEF Safe, OneWelcome
      <4> QED BY <1>3, <2>1, <4>1, <4>2
    <3> QED BY <3>1, <3>2
  <2>5. RegisteredHasUser'
    BY <1>1, <2>1, AuthAssumption DEF Safe, RegisteredHasUser
  <2>6. UserHasCall'
    <3> SUFFICES ASSUME NEW j \in Ids, users'[j] # NoUser
                 PROVE  \E d \in Calls : /\ calls'[d].at \in Saved
                                         /\ calls'[d].id = j
                                         /\ calls'[d].password = users'[j]
      BY DEF UserHasCall
    <3>1. CASE j = i
      BY <3>1, <1>1, <1>3, <1>4, <2>1 DEF Saved
    <3>2. CASE j # i
      BY <3>2, <1>1, <1>3, <2>1 DEF Safe, UserHasCall, Saved
    <3> QED BY <3>1, <3>2
  <2>7. TokenIsEarned'
    <3> SUFFICES ASSUME NEW b \in Calls, calls'[b].at = "token"
                 PROVE  /\ users'[calls'[b].id] = calls'[b].password
                        /\ \E d \in Calls : /\ calls'[d].at \in Saved
                                            /\ calls'[d].id = calls'[b].id
                                            /\ calls'[d].password = calls'[b].password
      BY DEF TokenIsEarned, At
    <3>1. b # c /\ calls'[b] = calls[b]
      BY <1>3
    <3>2. PICK d \in Calls : /\ calls[d].at \in Saved
                             /\ calls[d].id = calls[b].id
                             /\ calls[d].password = calls[b].password
      BY <3>1 DEF Safe, TokenIsEarned, At
    <3>3. d # c /\ calls[b].id # i
      BY <1>1, <2>2, <3>2 DEF Saved
    <3>4. /\ calls[b].id \in Ids
          /\ users[calls[b].id] = calls[b].password
      BY <3>1 DEF Safe, TypeOK, TokenIsEarned, At
    <3> QED BY <1>3, <2>1, <3>1, <3>2, <3>3, <3>4
  <2> QED BY <2>3, <2>4, <2>5, <2>6, <2>7 DEF Safe
<1>5. CASE UNCHANGED users /\ Goto(c, "refused")
  <2>1. TypeOK'
    BY <1>1, <1>3, <1>5 DEF Safe, TypeOK, CallRecords, Saved, At
  <2>2. OneWelcome'
    BY <1>1, <1>3, <1>5 DEF Safe, OneWelcome, Saved
  <2>3. RegisteredHasUser'
    BY <1>1, <1>5 DEF Safe, RegisteredHasUser
  <2>4. UserHasCall'
    BY <1>1, <1>3, <1>5 DEF Safe, UserHasCall, Saved
  <2>5. TokenIsEarned'
    BY <1>1, <1>3, <1>5 DEF Safe, TokenIsEarned, Saved, At
  <2> QED BY <2>1, <2>2, <2>3, <2>4, <2>5 DEF Safe
<1> QED BY <1>4, <1>5 DEF Save, InsertOne

\* The candidate is marked after its user was saved.
LEMMA RegisterKeeps ==
  ASSUME Safe, NEW c \in Calls, Register(c)
  PROVE  Safe'
<1>1. PICK failed \in BOOLEAN :
        registered' = [registered EXCEPT ![calls[c].id] = @ \/ ~failed]
  BY DEF Register
<1>2. /\ calls[c].at = "saved"
      /\ UNCHANGED << users, tokens >>
      /\ calls[c].id \in Candidates
      /\ calls[c].id \in Ids
      /\ users[calls[c].id] = calls[c].password
      /\ calls[c].password # NoUser
  BY AuthAssumption DEF Register, At, Safe, TypeOK, OneWelcome, Saved
<1>3. /\ calls'[c].at = "welcome"
      /\ calls'[c].id = calls[c].id
      /\ calls'[c].password = calls[c].password
      /\ calls' \in [Calls -> CallRecords]
      /\ \A d \in Calls \ {c} : calls'[d] = calls[d]
  BY DEF Register, Goto, Safe, TypeOK, CallRecords, Places, Saved
<1>4. /\ registered' \in [Candidates -> BOOLEAN]
      /\ \A j \in Candidates \ {calls[c].id} : registered'[j] = registered[j]
  BY <1>1, <1>2 DEF Safe, TypeOK
<1>5. TypeOK'
  BY <1>2, <1>3, <1>4 DEF Safe, TypeOK, CallRecords, Saved, At
<1>6. OneWelcome'
  BY <1>2, <1>3 DEF Safe, OneWelcome, Saved
<1>7. RegisteredHasUser'
  BY <1>2, <1>4 DEF Safe, RegisteredHasUser
<1>8. UserHasCall'
  BY <1>2, <1>3 DEF Safe, UserHasCall, Saved
<1>9. TokenIsEarned'
  BY <1>2, <1>3 DEF Safe, TokenIsEarned, Saved, At
<1> QED BY <1>5, <1>6, <1>7, <1>8, <1>9 DEF Safe

\* A token goes to a call whose password is that of the row, and the row
\* was written by a call that has saved it.
LEMMA SignInKeeps ==
  ASSUME Safe, NEW c \in Calls, NEW id \in Ids \cup {NoId},
         NEW password \in Passwords, NEW held, SignIn(c, id, password, held)
  PROVE  Safe'
<1>1. PICK place \in {"token", "refused"}, row \in Ids \cup {NoId} :
        /\ Answer(c, place, row, password)
        /\ tokens' = IF place = "token" THEN tokens \cup {row} ELSE tokens
        /\ place = "token" => row \in Ids /\ users[row] # NoUser /\ users[row] = password
  BY DEF SignIn, FindByKey, IsCorrectPassword
<1>2. calls[c].at = "new" /\ UNCHANGED << registered, users >>
  BY DEF SignIn, At
<1>3. /\ calls'[c].at = place
      /\ calls'[c].id = row
      /\ calls'[c].password = password
      /\ calls' \in [Calls -> CallRecords]
      /\ \A d \in Calls \ {c} : calls'[d] = calls[d]
  BY <1>1 DEF Answer, Safe, TypeOK, CallRecords, Places
<1>4. TypeOK'
  BY <1>1, <1>2, <1>3 DEF Safe, TypeOK, CallRecords, Saved, At
<1>5. OneWelcome'
  BY <1>2, <1>3 DEF Safe, OneWelcome, Saved
<1>6. RegisteredHasUser'
  BY <1>2 DEF Safe, RegisteredHasUser
<1>7. UserHasCall'
  BY <1>2, <1>3 DEF Safe, UserHasCall, Saved
<1>8. TokenIsEarned'
  <2> SUFFICES ASSUME NEW b \in Calls, calls'[b].at = "token"
               PROVE  /\ users'[calls'[b].id] = calls'[b].password
                      /\ \E d \in Calls : /\ calls'[d].at \in Saved
                                          /\ calls'[d].id = calls'[b].id
                                          /\ calls'[d].password = calls'[b].password
    BY DEF TokenIsEarned, At
  <2>1. CASE b = c
    BY <2>1, <1>1, <1>2, <1>3, <1>7 DEF UserHasCall
  <2>2. CASE b # c
    BY <2>2, <1>2, <1>3 DEF Safe, TokenIsEarned, Saved, At
  <2> QED BY <2>1, <2>2
<1> QED BY <1>4, <1>5, <1>6, <1>7, <1>8 DEF Safe

\* The tables outlive the process; a call that was under way has no answer.
LEMMA CrashKeeps ==
  ASSUME Safe, Crash
  PROVE  Safe'
<1>1. /\ UNCHANGED << registered, users, tokens >>
      /\ calls' \in [Calls -> CallRecords]
      /\ \A d \in Calls : /\ calls'[d].id = calls[d].id
                          /\ calls'[d].password = calls[d].password
                          /\ \/ calls[d].at = "checked" /\ calls'[d].at = "lost"
                             \/ calls[d].at = "saved" /\ calls'[d].at = "unsure"
                             \/ calls'[d].at = calls[d].at
  BY DEF Crash, At, Safe, TypeOK, CallRecords, Places, Saved
<1>2. TypeOK'
  BY <1>1 DEF Safe, TypeOK, CallRecords, Saved, At
<1>3. OneWelcome'
  BY <1>1 DEF Safe, OneWelcome, Saved
<1>4. RegisteredHasUser'
  BY <1>1 DEF Safe, RegisteredHasUser
<1>5. UserHasCall'
  BY <1>1 DEF Safe, UserHasCall, Saved
<1>6. TokenIsEarned'
  BY <1>1 DEF Safe, TokenIsEarned, Saved, At
<1> QED BY <1>2, <1>3, <1>4, <1>5, <1>6 DEF Safe

\* One step of the system keeps Safe.
LEMMA StepKeeps == Safe /\ [Next]_vars => Safe'
<1> SUFFICES ASSUME Safe, [Next]_vars PROVE Safe'
  OBVIOUS
<1>1. CASE \E c \in Calls, id \in Ids \cup {NoId}, password \in Passwords :
             \/ \E genuine \in BOOLEAN : CheckClaim(c, id, password, genuine)
             \/ \E held \in Ids \cup {NoId} : SignIn(c, id, password, held)
  BY <1>1, CheckKeeps, SignInKeeps
<1>2. CASE \E c \in Calls : Save(c) \/ Register(c)
  BY <1>2, SaveKeeps, RegisterKeeps
<1>3. CASE \E id \in Ids : Expire(id)
  BY <1>3 DEF Expire, Safe, TypeOK, OneWelcome, RegisteredHasUser, UserHasCall,
     TokenIsEarned, At
<1>4. CASE Crash
  BY <1>4, CrashKeeps
<1>5. CASE UNCHANGED vars
  BY <1>5 DEF vars, Safe, TypeOK, OneWelcome, RegisteredHasUser, UserHasCall,
     TokenIsEarned, At
<1> QED BY <1>1, <1>2, <1>3, <1>4, <1>5 DEF Next

----------------------------------------------------------------------------

\* However many calls overlap, fail or are lost, the tables and the answers
\* agree (SignUp and SignIn of auth.go).
THEOREM AlwaysSafe == Spec => []Safe
BY InitSafe, StepKeeps, PTL DEF Spec

\* The tables and the calls keep their shape, and no call is past the check
\* that is not for a candidate (SignUp).
THEOREM TypeCorrect == Spec => []TypeOK
<1>1. Safe => TypeOK
  BY DEF Safe
<1> QED BY <1>1, AlwaysSafe, PTL

\* At most one sign-up of a candidate saves a user and is answered Ok, and
\* its password is the one in the table (the insert of SignUp).
THEOREM WelcomedOnce == Spec => []OneWelcome
<1>1. Safe => OneWelcome
  BY DEF Safe
<1> QED BY <1>1, AlwaysSafe, PTL

\* Nobody is marked as registered who cannot sign in (the order of the two
\* statements of SignUp).
THEOREM RegisteredCanSignIn == Spec => []RegisteredHasUser
<1>1. Safe => RegisteredHasUser
  BY DEF Safe
<1> QED BY <1>1, AlwaysSafe, PTL

\* Tokens go only to those who give the password in the table, with which a
\* sign-up of the candidate has saved the user (SignIn).
THEOREM TokensAreEarned == Spec => []TokenIsEarned
<1>1. Safe => TokenIsEarned
  BY DEF Safe
<1> QED BY <1>1, AlwaysSafe, PTL

\* No step takes an account over (no statement but the insert writes users).
THEOREM PasswordsStay == Spec => PasswordStays
<1>1. ASSUME Safe, [Next]_vars
      PROVE  [\A i \in Ids : users[i] # NoUser => users'[i] = users[i]]_vars
  <2> SUFFICES ASSUME NEW i \in Ids, users[i] # NoUser
               PROVE  users'[i] = users[i]
    OBVIOUS
  <2>1. CASE \E c \in Calls : Save(c)
    <3>1. PICK c \in Calls : Save(c)
      BY <2>1
    <3>2. users \in [Ids -> Passwords \cup {NoUser}]
      BY <1>1 DEF Safe, TypeOK
    <3> QED BY <3>1, <3>2 DEF Save, InsertOne
  <2>2. CASE ~\E c \in Calls : Save(c)
    BY <2>2, <1>1 DEF Next, vars, CheckClaim, Register, SignIn, Expire, Crash
  <2> QED BY <2>1, <2>2
<1> QED BY <1>1, AlwaysSafe, PTL DEF Spec, PasswordStays
=============================================================================
