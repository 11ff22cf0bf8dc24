------------------------- MODULE CentralServerProofs -------------------------
(***************************************************************************)
(* The user records, the account verification, the challenges and the      *)
(* player counts of the central server, proved for any number of admins,   *)
(* applicants, game servers and visitors, any page size and any number of  *)
(* edits, messages, failures, periods and rounds.                          *)
(***************************************************************************)
EXTENDS UserRecords, AccountVerification, PlayerCounts, FiniteSetTheorems, TLAPS

------------------------------------------------------------------------------
(* User records *)

RecordSpec == RecordInit /\ [][RecordNext]_recordVars

Record == [punished : {"away", "no", "mute", "ban"}, over : BOOLEAN,
           roles : RoleSets \cup {{}}]

RecordStage == {"idle", "expire", "enter", "popup", "sent", "compare", "post",
                "stayed", "left"}

JobType == [pc : RecordStage, copy : Record, new : Record, next : RecordStage]

RecordTypes ==
    /\ row \in Record /\ live \in Record /\ want \in Record
    /\ job \in [Jobs -> JobType]

(* The row is what the edits made it even while admins are at work, and    *)
(* who is about to write an expired punishment back holds the row's own    *)
(* pardon: a copy that went stale leaves its mark in races.                *)
RowIsWanted ==
    races = {} =>
        /\ row = want
        /\ \A j \in Jobs : job[j].pc = "expire" => job[j].copy = Pardoned(row)

RecordInv == RecordTypes /\ RowIsWanted

(* Before the first request.                                               *)
LEMMA RecordInvInit == RecordInit => RecordInv
  BY DEF RecordInit, RecordInv, RecordTypes, RowIsWanted, Record, Clean, Away,
         NoJob, JobType, RecordStage

(* get_user changes the job of its caller alone, and takes a copy of the   *)
(* row or of its pardon.                                                   *)
LEMMA GetUserFacts ==
    ASSUME RecordInv, NEW j \in Jobs, NEW new \in Record, NEW next \in RecordStage,
           next # "expire", get_user(j, new, next)
    PROVE  /\ job' \in [Jobs -> JobType]
           /\ job'[j].pc = "expire" => job'[j].copy = Pardoned(row)
           /\ \A k \in Jobs \ {j} : job'[k] = job[k]
<1>1. row \in Record /\ Pardoned(row) \in Record
  BY Zenon DEF RecordInv, RecordTypes, Record, Pardoned
<1>2. job \in [Jobs -> JobType]
  BY DEF RecordInv, RecordTypes
<1>3. \A pc \in RecordStage, copy \in Record : Set(j, pc, copy, new, next) =>
          /\ job' \in [Jobs -> JobType] /\ job'[j].pc = pc /\ job'[j].copy = copy
          /\ \A k \in Jobs \ {j} : job'[k] = job[k]
  BY <1>2 DEF Set, JobType
<1>4. "expire" \in RecordStage
  BY DEF RecordStage
<1>5. QED
  BY <1>1, <1>3, <1>4 DEF get_user

(* Every step of the admins, the logins and the central server.            *)
LEMMA RecordInvStep == RecordInv /\ [RecordNext]_recordVars => RecordInv'
<1> SUFFICES ASSUME RecordInv, [RecordNext]_recordVars PROVE RecordInv'
  OBVIOUS
<1>1. row \in Record /\ live \in Record /\ want \in Record /\ job \in [Jobs -> JobType]
  BY DEF RecordInv, RecordTypes
<1>2. Clean \in Record /\ Away \in Record
  BY DEF Clean, Away, Record
<1>3. \A j \in Admins : j \in Jobs
  BY DEF Jobs
<1>4. "login" \in Jobs /\ "central" \in Jobs
  BY DEF Jobs
<1>5. \A j \in Jobs : Done(j) =>
          /\ job' \in [Jobs -> JobType] /\ job'[j].pc = "idle"
          /\ \A k \in Jobs \ {j} : job'[k] = job[k]
  BY <1>1, <1>2 DEF Done, NoJob, JobType, RecordStage
<1>6. ASSUME NEW r \in Record
      PROVE  /\ Later(r) \in Record /\ Pardoned(r) \in Record
             /\ Later(Pardoned(r)) = Pardoned(Later(r))
  <2>1. (r.punished \in {"mute", "ban"}) \in BOOLEAN
    OBVIOUS
  <2>2. Later(r) \in Record /\ Pardoned(r) \in Record
    BY <2>1, Zenon DEF Later, Pardoned, Record
  <2>3. Later(Pardoned(r)) = Pardoned(r)
    <3> DEFINE p == Pardoned(r)
    <3>1. p \in Record /\ p.punished = "no" /\ p.over = FALSE
      BY Zenon DEF Pardoned, Record
    <3> HIDE DEF p
    <3>2. (p.punished \in {"mute", "ban"}) = FALSE
      BY <3>1
    <3>3. Later(p) = [p EXCEPT !.over = FALSE]
      BY <3>2, Zenon DEF Later
    <3>4. QED
      BY <3>1, <3>3 DEF Record, p
  <2>4. Pardoned(Later(r)) = Pardoned(r)
    BY Zenon DEF Later, Pardoned, Record
  <2>5. QED
    BY <2>2, <2>3, <2>4
<1>7. ASSUME NEW j \in Jobs, Writes(j), races' = {}
      PROVE  races = {} /\ \A k \in Jobs \ {j} : job[k].pc = "idle"
  BY <1>7 DEF Writes, Busy
(* A step that writes neither the row nor a copy to be written back.       *)
<1>8. ASSUME NEW j \in Jobs, row' = row, want' = want, races' = races,
             live' \in Record, job' \in [Jobs -> JobType],
             job'[j].pc = "expire" => job'[j].copy = Pardoned(row),
             \A k \in Jobs \ {j} : job'[k] = job[k]
      PROVE  RecordInv'
  BY <1>1, <1>8 DEF RecordInv, RecordTypes, RowIsWanted
<1>9. CASE UNCHANGED recordVars
  BY <1>9 DEF recordVars, RecordInv, RecordTypes, RowIsWanted
<1>10. CASE is_banned
  BY <1>1, <1>2, <1>4, <1>8, <1>10, GetUserFacts DEF is_banned, RecordStage
<1>11. CASE TimePasses
  <2>1. /\ row' = Later(row) /\ want' = Later(want) /\ live' = Later(live)
        /\ races' = races
        /\ job' = [j \in Jobs |-> [job[j] EXCEPT !.copy = Later(@), !.new = Later(@)]]
    BY <1>11, Zenon DEF TimePasses
  <2>2. ASSUME NEW j \in Jobs
        PROVE  /\ job'[j] \in JobType
               /\ job'[j].pc = job[j].pc /\ job'[j].copy = Later(job[j].copy)
    BY <1>1, <1>6, <2>1, Zenon DEF JobType
  <2>3. job' \in [Jobs -> JobType]
    BY <2>1, <2>2, Zenon
  <2>4. QED
    BY <1>1, <1>6, <2>1, <2>2, <2>3, Zenon DEF RecordInv, RecordTypes, RowIsWanted
<1>12. CASE handle_login
  BY <1>1, <1>2, <1>4, <1>8, <1>12, GetUserFacts DEF handle_login, RecordStage
<1>13. CASE LoginEnds
  <2>1. /\ live' \in Record /\ row' = row /\ want' = want
        /\ Done("login") /\ Writes("login")
    BY <1>1, <1>4, <1>13 DEF LoginEnds, JobType
  <2>2. QED
    BY <1>1, <1>4, <1>5, <1>7, <2>1 DEF RecordInv, RecordTypes, RowIsWanted
<1>14. CASE Leaves
  <2>1. /\ row' = row /\ want' = want /\ races' = races /\ live' \in Record
        /\ job' = [j \in Jobs |-> IF job[j].pc = "post"
                                  THEN [job[j] EXCEPT !.next = "left"] ELSE job[j]]
    BY <1>2, <1>14 DEF Leaves
  <2>2. ASSUME NEW j \in Jobs
        PROVE  /\ job'[j] \in JobType
               /\ job'[j].pc = job[j].pc /\ job'[j].copy = job[j].copy
    BY <1>1, <2>1 DEF JobType, RecordStage
  <2>3. job' \in [Jobs -> JobType]
    BY <2>1, <2>2
  <2>4. QED
    BY <1>1, <2>1, <2>2, <2>3 DEF RecordInv, RecordTypes, RowIsWanted
<1>15. ASSUME NEW j \in Jobs, maybe_expire_ban(j) PROVE RecordInv'
  <2>1. /\ job[j].pc = "expire" /\ row' = job[j].copy /\ want' = Pardoned(want)
        /\ Writes(j) /\ live' = live
    BY <1>15 DEF maybe_expire_ban
  <2>2. /\ job' \in [Jobs -> JobType]
        /\ \A k \in Jobs \ {j} : job'[k] = job[k]
        /\ job'[j].pc = "expire" => job'[j].copy = job[j].copy
    BY <1>1, <1>5, <1>15 DEF maybe_expire_ban, JobType, RecordStage
  <2>3. row' \in Record /\ want' \in Record
    BY <1>1, <1>6, <2>1 DEF JobType
  <2>4. races' = {} => row' = want' /\ Pardoned(row') = row'
    <3>1. races' = {} => row' = Pardoned(row) /\ want' = Pardoned(row)
      BY <1>7, <2>1 DEF RecordInv, RowIsWanted
    <3>2. Pardoned(Pardoned(row)) = Pardoned(row)
      BY <1>1, Zenon DEF Pardoned, Record
    <3>3. QED
      BY <3>1, <3>2
  <2>5. QED
    BY <1>1, <1>7, <2>1, <2>2, <2>3, <2>4 DEF RecordInv, RecordTypes, RowIsWanted
<1>16. ASSUME NEW j \in Jobs, GivesUp(j) PROVE RecordInv'
  BY <1>1, <1>5, <1>8, <1>16 DEF GivesUp
<1>17. ASSUME NEW a \in Admins, handle_admin_get_user_state(a) PROVE RecordInv'
  <2>1. CASE live # Away
    <3>1. /\ row' = row /\ want' = want /\ races' = races /\ live' = live
          /\ Set(a, "popup", live, Clean, "popup")
      BY <1>17, <2>1 DEF handle_admin_get_user_state
    <3>2. /\ job' \in [Jobs -> JobType] /\ job'[a].pc = "popup"
          /\ \A k \in Jobs \ {a} : job'[k] = job[k]
      BY <1>1, <1>2, <1>3, <3>1 DEF Set, JobType, RecordStage
    <3>3. QED
      BY <1>1, <1>3, <1>8, <3>1, <3>2
  <2>2. CASE live = Away
    BY <1>1, <1>2, <1>3, <1>8, <1>17, <2>2, GetUserFacts
       DEF handle_admin_get_user_state, RecordStage
  <2>3. QED
    BY <2>1, <2>2
<1>18. ASSUME NEW a \in Admins, Edit(a) PROVE RecordInv'
  <2>1. PICK new \in {[job[a].copy EXCEPT !.punished = p, !.over = FALSE] :
                          p \in {"no", "mute", "ban"}}
                      \cup {[job[a].copy EXCEPT !.roles = r] : r \in RoleSets} :
            Set(a, "sent", job[a].copy, new, "compare")
    BY <1>18 DEF Edit
  <2>2. job[a].copy \in Record
    BY <1>1, <1>3 DEF JobType
  <2>3. new \in Record
    BY <2>2, Zenon DEF Record
  <2>4. /\ job' \in [Jobs -> JobType] /\ job'[a].pc = "sent"
        /\ \A k \in Jobs \ {a} : job'[k] = job[k]
    BY <1>1, <1>3, <2>1, <2>2, <2>3 DEF Set, JobType, RecordStage
  <2>5. row' = row /\ want' = want /\ races' = races /\ live' = live
    BY <1>18 DEF Edit
  <2>6. QED
    BY <1>1, <1>3, <1>8, <2>4, <2>5
<1>19. ASSUME NEW a \in Admins, handle_admin_update_user(a) PROVE RecordInv'
  <2>1. row' = row /\ want' = want /\ job[a].new \in Record
    BY <1>1, <1>3, <1>19 DEF handle_admin_update_user, JobType
  <2>2. CASE live # Away /\ job[a].new = live
    BY <1>1, <1>3, <1>5, <1>8, <1>19, <2>1, <2>2 DEF handle_admin_update_user
  <2>3. CASE live # Away /\ job[a].new # live
    <3>1. /\ live' = job[a].new /\ Writes(a)
          /\ Set(a, "post", live, job[a].new, "stayed")
      BY <1>19, <2>3 DEF handle_admin_update_user, Live
    <3>2. /\ job' \in [Jobs -> JobType] /\ job'[a].pc = "post"
          /\ \A k \in Jobs \ {a} : job'[k] = job[k]
      BY <1>1, <1>3, <2>1, <3>1 DEF Set, JobType, RecordStage
    <3>3. races' = {} => races = {}
      BY <1>3, <1>7, <3>1
    <3>4. QED
      BY <1>1, <1>3, <2>1, <3>1, <3>2, <3>3
         DEF RecordInv, RecordTypes, RowIsWanted
  <2>4. CASE live = Away
    <3>1. races' = races /\ live' = live /\ get_user(a, job[a].new, "compare")
      BY <1>19, <2>4 DEF handle_admin_update_user
    <3>2. QED
      BY <1>1, <1>3, <1>8, <2>1, <3>1, GetUserFacts DEF RecordStage
  <2>5. QED
    BY <2>2, <2>3, <2>4
<1>20. ASSUME NEW a \in Admins, NoChange(a) PROVE RecordInv'
  BY <1>1, <1>3, <1>5, <1>8, <1>20 DEF NoChange
<1>21. ASSUME NEW a \in Admins, update_user_data(a) PROVE RecordInv'
  <2>1. /\ Done(a) /\ Writes(a) /\ row' = job[a].new /\ want' = job[a].new
        /\ live' = live
    BY <1>21 DEF update_user_data
  <2>2. job[a].new \in Record
    BY <1>1, <1>3 DEF JobType
  <2>3. QED
    BY <1>1, <1>3, <1>5, <1>7, <2>1, <2>2 DEF RecordInv, RecordTypes, RowIsWanted
<1>22. ASSUME NEW a \in Admins, UpdateFails(a) PROVE RecordInv'
  <2>1. /\ Done(a) /\ row' \in {row, job[a].new} /\ want' = want /\ live' = live
        /\ races' # {}
    BY <1>22 DEF UpdateFails
  <2>2. job[a].new \in Record
    BY <1>1, <1>3 DEF JobType
  <2>3. QED
    BY <1>1, <1>3, <1>5, <2>1, <2>2 DEF RecordInv, RecordTypes, RowIsWanted
<1>23. QED
  BY <1>9, <1>10, <1>11, <1>12, <1>13, <1>14, <1>15, <1>16, <1>17, <1>18, <1>19,
     <1>20, <1>21, <1>22 DEF RecordNext

(* No edit an admin was told is done is undone by another admin, a login   *)
(* or the expiry of a punishment unless two of them overlapped or a        *)
(* request failed.                                                         *)
THEOREM EditsAreKept == RecordSpec => []EditsKept
<1>1. RecordInit => RecordInv
  BY RecordInvInit
<1>2. RecordInv /\ [RecordNext]_recordVars => RecordInv'
  BY RecordInvStep
<1>3. RecordInv => EditsKept
  BY DEF RecordInv, RowIsWanted, EditsKept
<1>4. QED
  BY <1>1, <1>2, <1>3, PTL DEF RecordSpec

------------------------------------------------------------------------------
(* Challenges *)

VerifySpec == VerifyInit /\ [][VerifyNext]_verifyVars

RequestStage == {"none", "wait", "decide", "granted", "key", "refused", "turned away"}

RequestType == [st : RequestStage, code : Nat, fresh : BOOLEAN, waited : Nat,
                posted : BOOLEAN, lapsed : BOOLEAN]

ChallengeTypes ==
    /\ chal \in [account : Applicants \cup {"none"}, code : Nat, expired : BOOLEAN]
    /\ codes \in Nat
    /\ known \in [Applicants -> [code : Nat, told : BOOLEAN]]
    /\ req \in [Applicants -> RequestType]

(* While a request is verified, the challenge of the address is its own,   *)
(* unless it lapsed.                                                       *)
OwnChallenge ==
    \A a \in Applicants :
        ~Idle(a) /\ ~req[a].lapsed => chal.account = a /\ ~chal.expired

ChallengeInv == ChallengeTypes /\ OwnChallenge

(* Every step of the clients, the verifier and the game's servers.         *)
LEMMA ChallengeInvStep ==
    ChallengeInv /\ [VerifyNext]_verifyVars => ChallengeInv'
<1> SUFFICES ASSUME ChallengeInv, [VerifyNext]_verifyVars PROVE ChallengeInv'
  OBVIOUS
<1>1. /\ chal \in [account : Applicants \cup {"none"}, code : Nat, expired : BOOLEAN]
      /\ codes \in Nat /\ known \in [Applicants -> [code : Nat, told : BOOLEAN]]
      /\ req \in [Applicants -> RequestType]
  BY DEF ChallengeInv, ChallengeTypes
(* A step after which every request is where it was, or no longer active,  *)
(* and no challenge was touched.                                           *)
<1>2. ASSUME chal' = chal, codes' = codes, known' \in [Applicants -> [code : Nat, told : BOOLEAN]],
             req' \in [Applicants -> RequestType],
             \A a \in Applicants : /\ Idle(a) => Idle(a)'
                                   /\ req'[a].lapsed = req[a].lapsed
      PROVE  ChallengeInv'
  BY <1>1, <1>2 DEF ChallengeInv, ChallengeTypes, OwnChallenge
<1>3. CASE UNCHANGED <<chal, codes, known, req>>
  BY <1>1, <1>2, <1>3 DEF Idle
<1>4. CASE Expire
  <2>1. /\ chal' = [chal EXCEPT !.expired = TRUE] /\ UNCHANGED <<codes, known>>
        /\ req' = [a \in Applicants |-> Lapsed(a)]
    BY <1>4 DEF Expire
  <2>2. /\ chal' \in [account : Applicants \cup {"none"}, code : Nat, expired : BOOLEAN]
        /\ chal'.account = chal.account
    BY <1>1, <2>1, Zenon
  <2>3. ASSUME NEW a \in Applicants
        PROVE  /\ req'[a] \in RequestType /\ req'[a].st = req[a].st
               /\ chal.account = a /\ ~Idle(a) => req'[a].lapsed
               /\ req[a].lapsed => req'[a].lapsed
    BY <1>1, <2>1, Zenon DEF Lapsed, RequestType
  <2>4. req' \in [Applicants -> RequestType]
    BY <2>1, <2>3
  <2>5. OwnChallenge'
    BY <2>3 DEF ChallengeInv, OwnChallenge, Idle
  <2>6. QED
    BY <1>1, <2>1, <2>2, <2>4, <2>5 DEF ChallengeInv, ChallengeTypes
<1>5. ASSUME NEW a \in Applicants, challenge_start(a) PROVE ChallengeInv'
  <2>1. /\ Idle(a) /\ req' = [req EXCEPT ![a] = NoRequest]
        /\ \/ /\ chal' = chal /\ codes' = codes
              /\ known' = [known EXCEPT ![a] = [code |-> chal.code, told |-> FALSE]]
           \/ /\ chal.account # a /\ MayReplace(a) /\ codes' = codes + 1
              /\ chal' = [account |-> a, code |-> codes', expired |-> FALSE]
              /\ known' = [known EXCEPT ![a] = [code |-> codes', told |-> FALSE]]
    BY <1>5 DEF challenge_start
  <2>2. /\ chal' \in [account : Applicants \cup {"none"}, code : Nat, expired : BOOLEAN]
        /\ codes' \in Nat
    <3>1. codes' \in Nat
      BY <1>1, <2>1
    <3>2. [account |-> a, code |-> codes', expired |-> FALSE]
              \in [account : Applicants \cup {"none"}, code : Nat, expired : BOOLEAN]
      BY <3>1
    <3>3. QED
      BY <1>1, <2>1, <3>1, <3>2, Zenon
  <2>3. known' \in [Applicants -> [code : Nat, told : BOOLEAN]]
    <3>1. \A c \in Nat : [code |-> c, told |-> FALSE] \in [code : Nat, told : BOOLEAN]
      OBVIOUS
    <3>2. chal.code \in Nat
      BY <1>1
    <3>3. PICK c \in Nat : known' = [known EXCEPT ![a] = [code |-> c, told |-> FALSE]]
      BY <2>1, <2>2, <3>2
    <3>4. QED
      BY <1>1, <3>1, <3>3
  <2>4. NoRequest \in RequestType /\ NoRequest.st = "none"
    BY DEF NoRequest, RequestType, RequestStage
  <2>5. /\ req' \in [Applicants -> RequestType]
        /\ req'[a].st = "none" /\ \A b \in Applicants \ {a} : req'[b] = req[b]
    BY <1>1, <2>1, <2>4
  <2>6. OwnChallenge'
    <3>1. CASE chal' = chal
      BY <2>5, <3>1 DEF ChallengeInv, OwnChallenge, Idle
    <3>2. CASE MayReplace(a)
      <4>1. \A b \in Applicants : Idle(b) \/ req[b].lapsed
        BY <3>2, ApplicantsAssumption
           DEF ChallengeInv, OwnChallenge, MayReplace, NoChallenge
      <4>2. QED
        BY <2>5, <4>1 DEF OwnChallenge, Idle
    <3>3. QED
      BY <2>1, <3>1, <3>2
  <2>7. QED
    BY <2>2, <2>3, <2>5, <2>6 DEF ChallengeInv, ChallengeTypes
<1>6. ASSUME NEW a \in Applicants, SendMessage(a) PROVE ChallengeInv'
  <2>1. /\ known' = [known EXCEPT ![a].told = TRUE] /\ UNCHANGED <<chal, codes, req>>
    BY <1>6 DEF SendMessage
  <2>2. known' \in [Applicants -> [code : Nat, told : BOOLEAN]]
    BY <1>1, <2>1, Zenon
  <2>3. QED
    BY <1>1, <1>2, <2>1, <2>2 DEF Idle
<1>7. ASSUME NEW a \in Applicants, challenge_finish(a) PROVE ChallengeInv'
  BY <1>7, Zenon DEF challenge_finish, NoAnswer, ChallengeInv, ChallengeTypes, OwnChallenge,
              RequestType, RequestStage, Idle
<1>8. ASSUME NEW a \in Applicants, NEW r \in RequestType, req' = [req EXCEPT ![a] = r],
             r.lapsed = req[a].lapsed, ~Idle(a), UNCHANGED <<chal, codes, known>>
      PROVE  ChallengeInv'
  <2>1. req' \in [Applicants -> RequestType] /\ req'[a] = r
        /\ \A b \in Applicants \ {a} : req'[b] = req[b]
    BY <1>1, <1>8
  <2>2. QED
    BY <1>1, <1>2, <1>8, <2>1 DEF Idle
<1>9. ASSUME NEW a \in Applicants, StopWaiting(a) PROVE ChallengeInv'
  <2> DEFINE r == [req[a] EXCEPT !.st = "decide"]
  <2>1. /\ req' = [req EXCEPT ![a] = r] /\ req[a].st = "wait"
        /\ UNCHANGED <<chal, codes, known>>
    BY <1>9 DEF StopWaiting, Found
  <2>2. r \in RequestType /\ r.lapsed = req[a].lapsed
    BY <1>1, Zenon DEF RequestType, RequestStage
  <2>3. QED
    BY <1>8, <2>1, <2>2, Zenon DEF Idle
<1>10. ASSUME NEW a \in Applicants, Decide(a) PROVE ChallengeInv'
  <2> DEFINE r == [req[a] EXCEPT !.st = IF Matches(a) THEN "granted" ELSE "refused",
                                 !.fresh = FALSE, !.waited = 0]
  <2>1. /\ req' = [req EXCEPT ![a] = r] /\ req[a].st = "decide"
        /\ UNCHANGED <<chal, codes, known>>
    BY <1>10, Zenon DEF Decide
  <2>2. r \in RequestType /\ r.lapsed = req[a].lapsed
    BY <1>1, Zenon DEF RequestType, RequestStage
  <2>3. QED
    BY <1>8, <2>1, <2>2, Zenon DEF Idle
<1>11. ASSUME NEW a \in Applicants, ChallengeFinished(a) PROVE ChallengeInv'
  <2>1. /\ req[a].st = "granted" /\ chal' = NoChallenge /\ UNCHANGED <<codes, known>>
        /\ req' = [b \in Applicants |-> IF b = a THEN [req[a] EXCEPT !.st = "key"]
                                        ELSE IF req[a].lapsed THEN Lapsed(b) ELSE req[b]]
    BY <1>11 DEF ChallengeFinished
  <2>2. chal' \in [account : Applicants \cup {"none"}, code : Nat, expired : BOOLEAN]
    BY <2>1 DEF NoChallenge
  <2>3. ASSUME NEW b \in Applicants \ {a}
        PROVE  /\ req'[b] \in RequestType /\ req'[b].st = req[b].st
               /\ req[b].lapsed => req'[b].lapsed
               /\ req[a].lapsed /\ chal.account = b /\ ~Idle(b) => req'[b].lapsed
    BY <1>1, <2>1, Zenon DEF Lapsed, RequestType
  <2>4. req'[a] \in RequestType /\ req'[a].st = "key"
    BY <1>1, <2>1, Zenon DEF RequestType, RequestStage
  <2>5. req' \in [Applicants -> RequestType]
    BY <2>1, <2>3, <2>4
  <2>6. ~Idle(a)
    BY <2>1 DEF Idle
  <2>7. ASSUME NEW b \in Applicants PROVE ~Idle(b)' => req'[b].lapsed
    <3>1. CASE b = a
      BY <2>4, <3>1 DEF Idle
    <3>2. CASE b # a /\ Idle(b)
      BY <2>3, <3>2 DEF Idle
    <3>3. CASE b # a /\ ~Idle(b)
      <4>1. req[b].lapsed \/ chal.account = b
        BY <3>3 DEF ChallengeInv, OwnChallenge
      <4>2. chal.account = b => req[a].lapsed
        BY <2>6, <3>3 DEF ChallengeInv, OwnChallenge
      <4>3. QED
        BY <2>3, <3>3, <4>1, <4>2
    <3>4. QED
      BY <3>1, <3>2, <3>3
  <2>8. QED
    BY <1>1, <2>1, <2>2, <2>5, <2>7 DEF ChallengeInv, ChallengeTypes, OwnChallenge
(* The refresher changes the counters of the requests alone.               *)
<1>12. CASE NextPeriod \/ flush_cache
  <2>1. UNCHANGED <<chal, codes, known>>
    BY <1>12 DEF NextPeriod, flush_cache
  <2>2. ASSUME NEW a \in Applicants
        PROVE  /\ req'[a] \in RequestType /\ req'[a].st = req[a].st
               /\ req'[a].lapsed = req[a].lapsed
    <3>1. CASE NextPeriod
      BY <1>1, <3>1 DEF NextPeriod, RequestType
    <3>2. CASE flush_cache
      BY <1>1, <3>2, Zenon DEF flush_cache, RequestType
    <3>3. QED
      BY <1>12, <3>1, <3>2
  <2>3. req' \in [Applicants -> RequestType]
    BY <1>12, <2>2 DEF NextPeriod, flush_cache
  <2>4. QED
    BY <1>1, <1>2, <2>1, <2>2, <2>3 DEF Idle
<1>13. QED
  BY <1>3, <1>4, <1>5, <1>6, <1>7, <1>9, <1>10, <1>11, <1>12
     DEF VerifyNext, Refresh, Delete, Verify, verifyVars, AskForMessages, RefreshFailed,
         delete_outdated, Deleted, DeletionFailed, OtherMessage, GrowOld, reload_in_place

(* challenge_finish never removes the challenge of another account behind  *)
(* the address unless, somewhere down the line, a challenge expired while  *)
(* it was being verified.                                                  *)
THEOREM OnlyOwnChallengeRemoved == VerifySpec => OwnChallengeRemoved
<1>1. VerifyInit => ChallengeInv
  BY DEF VerifyInit, ChallengeInv, ChallengeTypes, OwnChallenge, NoChallenge, NoAnswer,
         NoRequest, RequestType, RequestStage, Idle
<1>2. ChallengeInv /\ [VerifyNext]_verifyVars => ChallengeInv'
  BY ChallengeInvStep
<1>3. ChallengeInv =>
          [\A a \in Applicants :
              req[a].st = "granted" /\ req'[a].st = "key" =>
                  chal.account \in {a, "none"} \/ req[a].lapsed]_verifyVars
  BY DEF ChallengeInv, OwnChallenge, Idle
<1>4. QED
  BY <1>1, <1>2, <1>3, PTL DEF VerifySpec, OwnChallengeRemoved

------------------------------------------------------------------------------
(* Verification *)

MessageType == [id : Nat, from : Applicants \cup {"chat", "garbled"}, code : Nat]

(* What the refresher and the cache hold was sent to the inbox.            *)
MessagesSent ==
    /\ IsFiniteSet(sent) /\ \A m \in sent : m \in MessageType
    /\ \A m \in sent : m.from \notin Applicants => m.code = 0
    /\ inbox \subseteq sent /\ cache \subseteq sent
    /\ ref.st \in {"idle", "asked", "done"}
    /\ ref.page \subseteq sent /\ ref.old \subseteq ref.page

(* Code c has been given to, or used by, account a.                        *)
Used(a, c) ==
    \/ chal.account = a /\ chal.code = c
    \/ known[a].code = c
    \/ req[a].code = c
    \/ \E m \in sent : m.from = a /\ m.code = c

(* A code belongs to one account: who holds a code holds its own.          *)
CodesOwned ==
    /\ \A a \in Applicants, c \in Nat : Used(a, c) => c =< codes
    /\ \A a, b \in Applicants, c \in Nat \ {0} : Used(a, c) /\ Used(b, c) => a = b
    /\ chal.account # "none" => chal.code # 0
    /\ \A a \in Applicants : known[a] # NoAnswer => known[a].code # 0
    /\ \A a \in Applicants : ~Idle(a) => req[a].code # 0

(* One of the messages is the answer of a's request.                       *)
AnswerIn(a, messages) == \E m \in messages : m.from = a /\ m.code = req[a].code

(* As long as nothing went wrong: the answer of a waiting request stays in *)
(* the inbox; one period after the request at the latest the refresher     *)
(* asks for a page that holds it, and from then on the cache has it until  *)
(* the request is decided, because the next period begins only after that. *)
InTime(a) ==
    req[a].posted =>
        /\ req[a].st \in {"wait", "decide"} => AnswerIn(a, inbox)
        /\ req[a].st = "wait" =>
              /\ req[a].waited \in {0, 1}
              /\ req[a].waited = 1 /\ ref.st = "asked" => AnswerIn(a, ref.page)
              /\ req[a].waited = 1 /\ ref.st = "done" => req[a].fresh /\ AnswerIn(a, cache)
        /\ req[a].st = "decide" => ref.st = "done" /\ AnswerIn(a, cache)
        /\ req[a].st # "refused"

Undisturbed ==
    mishaps = {} =>
        /\ api
        /\ \A m \in outdated \cup del : m.code = 0
        /\ \A a \in Applicants : (Found(a) => ref.st = "done") /\ InTime(a)

VerifyInv == ChallengeInv /\ MessagesSent /\ CodesOwned /\ Undisturbed

(* A request that is left alone fares as before.                           *)
LEMMA RequestKept ==
    ASSUME NEW b \in Applicants, req'[b] = req[b], UNCHANGED <<ref, cache, inbox>>
    PROVE  (Found(b)' => Found(b)) /\ (InTime(b) => InTime(b)')
<1>1. Found(b)' => Found(b)
  BY DEF Found, HasCode
<1>2. InTime(b) => InTime(b)'
  BY DEF InTime, AnswerIn
<1> QED
  BY <1>1, <1>2

(* A new message is a message.                                             *)
LEMMA MessageFacts ==
    ASSUME MessagesSent, NEW from \in Applicants \cup {"chat", "garbled"}, NEW code \in Nat,
           from \notin Applicants => code = 0, Arrives(Message(from, code))
    PROVE  /\ IsFiniteSet(sent') /\ \A m \in sent' : m \in MessageType
           /\ \A m \in sent' : m.from \notin Applicants => m.code = 0
           /\ inbox' \subseteq sent' /\ sent \subseteq sent' /\ inbox \subseteq inbox'
           /\ \A m \in sent' : m \in sent \/ (m.from = from /\ m.code = code)
<1> DEFINE new == Message(from, code)
<1>1. IsFiniteSet(sent) /\ Cardinality(sent) \in Nat
  BY FS_CardinalityType DEF MessagesSent
<1>2. new \in MessageType /\ new.from = from /\ new.code = code
  BY <1>1 DEF Message, MessageType
<1> HIDE DEF new
<1>3. sent' = sent \cup {new} /\ inbox' = inbox \cup {new}
  BY DEF Arrives, new
<1>4. IsFiniteSet(sent')
  BY <1>1, <1>3, FS_AddElement
<1>5. QED
  BY <1>2, <1>3, <1>4 DEF MessagesSent

(* Every step keeps MessagesSent.                                          *)
LEMMA MessagesSentStep ==
    ASSUME ChallengeInv, MessagesSent, [VerifyNext]_verifyVars
    PROVE  MessagesSent'
<1>1. CASE UNCHANGED <<inbox, sent, cache, ref>>
  BY <1>1 DEF MessagesSent
<1>2. ASSUME NEW a \in Applicants, SendMessage(a) PROVE MessagesSent'
  <2>1. known[a].code \in Nat
    BY DEF ChallengeInv, ChallengeTypes
  <2>2. Arrives(Message(a, known[a].code)) /\ UNCHANGED <<cache, ref>>
    BY <1>2 DEF SendMessage
  <2>3. QED
    BY <2>1, <2>2, MessageFacts DEF MessagesSent
<1>3. CASE OtherMessage
  <2>1. PICK kind \in {"chat", "garbled"} : Arrives(Message(kind, 0))
    BY <1>3 DEF OtherMessage
  <2>2. UNCHANGED <<cache, ref>>
    BY <1>3 DEF OtherMessage
  <2>3. QED
    BY <2>1, <2>2, MessageFacts DEF MessagesSent
<1>4. CASE NextPeriod
  BY <1>4 DEF NextPeriod, NoPage, MessagesSent
<1>5. CASE AskForMessages
  <2>1. FirstPage \subseteq inbox
    BY DEF FirstPage
  <2>2. QED
    BY <1>5, <2>1 DEF AskForMessages, MessagesSent
<1>6. CASE RefreshFailed
  BY <1>6 DEF RefreshFailed, NoPage, MessagesSent
<1>7. CASE flush_cache
  <2>1. Parsed(ref.page) \subseteq ref.page
    BY DEF Parsed
  <2>2. QED
    BY <1>7, <2>1 DEF flush_cache, NoPage, MessagesSent
<1>8. CASE Deleted
  BY <1>8 DEF Deleted, MessagesSent
<1>9. QED
  BY <1>1, <1>2, <1>3, <1>4, <1>5, <1>6, <1>7, <1>8, Zenon
     DEF VerifyNext, Refresh, Delete, Verify, verifyVars, delete_outdated, DeletionFailed,
         GrowOld, Expire, reload_in_place, challenge_start, challenge_finish, StopWaiting,
         Decide, ChallengeFinished

(* Every step keeps CodesOwned: only challenge_start makes a code, and it  *)
(* is a new one.                                                           *)
LEMMA CodesOwnedStep ==
    ASSUME ChallengeInv, MessagesSent, CodesOwned, [VerifyNext]_verifyVars
    PROVE  CodesOwned'
<1>1. codes \in Nat /\ req \in [Applicants -> RequestType]
      /\ known \in [Applicants -> [code : Nat, told : BOOLEAN]]
  BY DEF ChallengeInv, ChallengeTypes
<1>2. ASSUME codes' = codes,
             \A a \in Applicants, c \in Nat \ {0} : Used(a, c)' => Used(a, c),
             chal'.account # "none" => chal'.code # 0,
             \A a \in Applicants : known'[a] # NoAnswer => known'[a].code # 0,
             \A a \in Applicants : ~Idle(a)' => req'[a].code # 0
      PROVE  CodesOwned'
  <2>1. \A a \in Applicants, c \in Nat : Used(a, c)' => c =< codes
    BY <1>1, <1>2 DEF CodesOwned
  <2>2. \A a, b \in Applicants, c \in Nat \ {0} : Used(a, c)' /\ Used(b, c)' => a = b
    BY <1>2 DEF CodesOwned
  <2> HIDE DEF Used
  <2>3. QED
    BY <1>2, <2>1, <2>2 DEF CodesOwned
(* A step that gives nobody a code, and activates no request.              *)
<1>3. ASSUME codes' = codes, sent' = sent, chal' = chal \/ chal' = NoChallenge
                                        \/ chal' = [chal EXCEPT !.expired = TRUE],
             \A a \in Applicants : known'[a] = known[a] \/ known'[a] = NoAnswer,
             \A a \in Applicants :
                 /\ req'[a].code = req[a].code
                 /\ Idle(a) => Idle(a)'
      PROVE  CodesOwned'
  <2>1. (chal'.code = chal.code /\ chal'.account = chal.account) \/ chal' = NoChallenge
    BY <1>3 DEF ChallengeInv, ChallengeTypes
  <2>2. NoChallenge.code = 0 /\ NoAnswer.code = 0 /\ NoChallenge.account = "none"
    BY DEF NoChallenge, NoAnswer
  <2>3. \A a \in Applicants, c \in Nat \ {0} : Used(a, c)' => Used(a, c)
    BY <1>3, <2>1, <2>2 DEF Used
  <2>4. chal'.account # "none" => chal'.code # 0
    BY <2>1, <2>2 DEF CodesOwned
  <2>5. \A a \in Applicants : known'[a] # NoAnswer => known'[a].code # 0
    BY <1>3 DEF CodesOwned
  <2>6. \A a \in Applicants : ~Idle(a)' => req'[a].code # 0
    BY <1>3 DEF CodesOwned
  <2>7. QED
    BY <1>2, <1>3, <2>3, <2>4, <2>5, <2>6
<1>4. CASE UNCHANGED <<codes, sent, chal, known, req>>
  BY <1>3, <1>4 DEF Idle
<1>5. ASSUME NEW a \in Applicants, SendMessage(a) PROVE CodesOwned'
  <2>1. /\ known[a].code \in Nat \ {0} /\ Arrives(Message(a, known[a].code))
        /\ known' = [known EXCEPT ![a].told = TRUE] /\ UNCHANGED <<chal, codes, req>>
    BY <1>1, <1>5 DEF SendMessage
  <2>2. \A b \in Applicants : known'[b].code = known[b].code
    BY <1>1, <2>1
  <2>3. \A m \in sent' : m \in sent \/ (m.from = a /\ m.code = known[a].code)
    BY <2>1, MessageFacts
  <2>4. \A b \in Applicants, c \in Nat \ {0} : Used(b, c)' => Used(b, c)
    BY <2>1, <2>2, <2>3 DEF Used
  <2>5. \A b \in Applicants : known'[b] # NoAnswer => known'[b].code # 0
    BY <1>1, <2>1, <2>2 DEF CodesOwned
  <2>6. QED
    BY <1>2, <2>1, <2>4, <2>5 DEF CodesOwned, Idle
<1>6. CASE OtherMessage
  <2>1. PICK kind \in {"chat", "garbled"} : Arrives(Message(kind, 0))
    BY <1>6 DEF OtherMessage
  <2>2. \A m \in sent' : m \in sent \/ m.code = 0
    BY <2>1, MessageFacts
  <2>3. UNCHANGED <<chal, codes, known, req>>
    BY <1>6 DEF OtherMessage
  <2>4. \A b \in Applicants, c \in Nat \ {0} : Used(b, c)' => Used(b, c)
    BY <2>2, <2>3 DEF Used
  <2>5. QED
    BY <1>2, <2>3, <2>4 DEF CodesOwned, Idle
<1>7. CASE Expire
  <2>1. /\ UNCHANGED <<codes, known, sent>> /\ chal' = [chal EXCEPT !.expired = TRUE]
        /\ req' = [a \in Applicants |-> Lapsed(a)]
    BY <1>7 DEF Expire
  <2>2. \A a \in Applicants : req'[a].code = req[a].code /\ req'[a].st = req[a].st
    BY <1>1, <2>1 DEF Lapsed, RequestType
  <2>3. QED
    BY <1>3, <2>1, <2>2 DEF Idle
<1>8. ASSUME NEW a \in Applicants, challenge_start(a) PROVE CodesOwned'
  <2>1. /\ Idle(a) /\ req' = [req EXCEPT ![a] = NoRequest] /\ UNCHANGED sent
    BY <1>8 DEF challenge_start
  <2>2. /\ req'[a].code = 0 /\ Idle(a)'
        /\ \A b \in Applicants \ {a} : req'[b] = req[b]
    BY <1>1, <2>1 DEF NoRequest, Idle
  <2>3. CASE /\ chal.account = a /\ chal' = chal /\ codes' = codes
             /\ known' = [known EXCEPT ![a] = [code |-> chal.code, told |-> FALSE]]
    <3>1. /\ known'[a].code = chal.code
          /\ \A b \in Applicants \ {a} : known'[b] = known[b]
      BY <1>1, <2>3
    <3>2. chal.account # "none"
      BY <2>3, ApplicantsAssumption
    <3>3. \A b \in Applicants, c \in Nat \ {0} : Used(b, c)' => Used(b, c)
      BY <2>1, <2>2, <2>3, <3>1 DEF Used
    <3>4. QED
      BY <1>2, <2>2, <2>3, <3>1, <3>2, <3>3 DEF CodesOwned, Idle
  <2>4. CASE /\ codes' = codes + 1
             /\ chal' = [account |-> a, code |-> codes', expired |-> FALSE]
             /\ known' = [known EXCEPT ![a] = [code |-> codes', told |-> FALSE]]
    <3>1. /\ known'[a].code = codes + 1
          /\ \A b \in Applicants \ {a} : known'[b] = known[b]
      BY <1>1, <2>4
    <3>2. chal'.account = a /\ chal'.code = codes + 1
      BY <2>4
    <3>3. \A b \in Applicants, c \in Nat \ {0} :
              Used(b, c)' => Used(b, c) \/ (b = a /\ c = codes + 1)
      BY <2>1, <2>2, <3>1, <3>2 DEF Used
    <3>4. \A b \in Applicants : ~Used(b, codes + 1)
      BY <1>1 DEF CodesOwned
    <3> HIDE DEF Used
    <3>5. \A b \in Applicants, c \in Nat : Used(b, c)' => c =< codes'
      BY <1>1, <2>4, <3>3 DEF CodesOwned
    <3>6. \A b, d \in Applicants, c \in Nat \ {0} : Used(b, c)' /\ Used(d, c)' => b = d
      BY <1>1, <3>3, <3>4 DEF CodesOwned
    <3>7. \A b \in Applicants : known'[b] # NoAnswer => known'[b].code # 0
      BY <1>1, <3>1 DEF CodesOwned
    <3>8. \A b \in Applicants : ~Idle(b)' => req'[b].code # 0
      BY <2>2 DEF CodesOwned, Idle
    <3>9. QED
      BY <1>1, <3>2, <3>5, <3>6, <3>7, <3>8 DEF CodesOwned
  <2>5. QED
    BY <1>8, <2>3, <2>4 DEF challenge_start
<1>9. ASSUME NEW a \in Applicants, challenge_finish(a) PROVE CodesOwned'
  <2>1. /\ known[a] # NoAnswer /\ known' = [known EXCEPT ![a] = NoAnswer]
        /\ UNCHANGED <<chal, codes, sent>>
        /\ req'[a].code = known[a].code
        /\ \A b \in Applicants \ {a} : req'[b] = req[b]
    BY <1>1, <1>9, Zenon DEF challenge_finish
  <2>2. /\ known'[a] = NoAnswer /\ NoAnswer.code = 0
        /\ \A b \in Applicants \ {a} : known'[b] = known[b]
    BY <1>1, <2>1 DEF NoAnswer
  <2>3. \A b \in Applicants, c \in Nat \ {0} : Used(b, c)' => Used(b, c)
    BY <2>1, <2>2 DEF Used
  <2>4. QED
    BY <1>2, <2>1, <2>2, <2>3 DEF CodesOwned, Idle
<1>10. ASSUME NEW a \in Applicants, StopWaiting(a) \/ Decide(a) PROVE CodesOwned'
  <2>1. UNCHANGED <<chal, codes, known, sent>> /\ ~Idle(a)
    BY <1>10 DEF StopWaiting, Decide, Found, Idle
  <2>2. /\ req'[a].code = req[a].code
        /\ \A b \in Applicants \ {a} : req'[b] = req[b]
    BY <1>1, <1>10 DEF StopWaiting, Decide, RequestType
  <2>3. QED
    BY <1>3, <2>1, <2>2 DEF Idle
<1>11. ASSUME NEW a \in Applicants, ChallengeFinished(a) PROVE CodesOwned'
  <2>1. /\ req[a].st = "granted" /\ chal' = NoChallenge /\ UNCHANGED <<codes, known, sent>>
        /\ req' = [b \in Applicants |-> IF b = a THEN [req[a] EXCEPT !.st = "key"]
                                        ELSE IF req[a].lapsed THEN Lapsed(b) ELSE req[b]]
    BY <1>11 DEF ChallengeFinished
  <2>2. ~Idle(a)
    BY <2>1 DEF Idle
  <2>3. \A b \in Applicants \ {a} : req'[b].code = req[b].code /\ req'[b].st = req[b].st
    BY <1>1, <2>1 DEF Lapsed, RequestType
  <2>4. req'[a].code = req[a].code
    BY <1>1, <2>1 DEF RequestType
  <2>5. \A b \in Applicants : req'[b].code = req[b].code /\ (Idle(b) => Idle(b)')
    BY <2>2, <2>3, <2>4 DEF Idle
  <2>6. QED
    BY <1>3, <2>1, <2>5
<1>12. CASE NextPeriod \/ flush_cache
  <2>1. UNCHANGED <<chal, codes, known, sent>>
    BY <1>12 DEF NextPeriod, flush_cache
  <2>2. ASSUME NEW a \in Applicants
        PROVE  req'[a].st = req[a].st /\ req'[a].code = req[a].code
    <3>1. CASE NextPeriod
      BY <1>1, <3>1 DEF NextPeriod, RequestType
    <3>2. CASE flush_cache
      BY <1>1, <3>2 DEF flush_cache, RequestType
    <3>3. QED
      BY <1>12, <3>1, <3>2
  <2>3. QED
    BY <1>3, <2>1, <2>2 DEF Idle
<1>13. QED
  BY <1>4, <1>5, <1>6, <1>7, <1>8, <1>9, <1>10, <1>11, <1>12, Zenon
     DEF VerifyNext, Refresh, Delete, Verify, verifyVars, AskForMessages, RefreshFailed,
         delete_outdated, Deleted, DeletionFailed, GrowOld, reload_in_place

(* A page at least as long as the inbox is the whole inbox.                *)
LEMMA WholeInbox ==
    ASSUME MessagesSent, Cardinality(inbox) =< PageSize
    PROVE  FirstPage = inbox
<1>1. IsFiniteSet(inbox)
  BY FS_Subset DEF MessagesSent
<1>2. ASSUME NEW m \in inbox PROVE Cardinality({n \in inbox : n.id > m.id}) < PageSize
  <2> DEFINE newer == {n \in inbox : n.id > m.id}
  <2>1. newer \subseteq inbox
    OBVIOUS
  <2>2. m \notin newer
    BY DEF MessagesSent, MessageType
  <2> HIDE DEF newer
  <2>3. newer # inbox
    BY <2>2
  <2>4. /\ IsFiniteSet(newer) /\ Cardinality(newer) =< Cardinality(inbox)
        /\ Cardinality(newer) # Cardinality(inbox)
    BY <1>1, <2>1, <2>3, FS_Subset
  <2>5. Cardinality(newer) \in Nat /\ Cardinality(inbox) \in Nat
    BY <1>1, <2>4, FS_CardinalityType
  <2>6. Cardinality(newer) < PageSize
    BY <2>4, <2>5, PageSizeAssumption
  <2>7. QED
    BY <2>6 DEF newer
<1>3. QED
  BY <1>2 DEF FirstPage

(* Every step keeps Undisturbed.                                           *)
LEMMA UndisturbedStep ==
    ASSUME VerifyInv, [VerifyNext]_verifyVars
    PROVE  Undisturbed'
<1> SUFFICES ASSUME mishaps' = {} PROVE Undisturbed'
  BY DEF Undisturbed
<1>1. /\ ChallengeInv /\ MessagesSent /\ CodesOwned
      /\ req \in [Applicants -> RequestType]
  BY DEF VerifyInv, ChallengeInv, ChallengeTypes
<1>2. ASSUME mishaps = {}
      PROVE  /\ api
             /\ \A m \in outdated \cup del : m.code = 0
             /\ \A a \in Applicants : (Found(a) => ref.st = "done") /\ InTime(a)
  BY <1>2 DEF VerifyInv, Undisturbed
<1>3. \A a \in Applicants : req[a].st \in {"wait", "decide"} => req[a].code # 0
  BY <1>1 DEF CodesOwned, Idle
(* A step of nobody the waiting requests depend on.                        *)
<1>4. ASSUME UNCHANGED <<mishaps, api, ref, cache>>,
             \A m \in outdated' \cup del' : m \in outdated \cup del,
             \A m \in inbox : m.code # 0 => m \in inbox',
             \A a \in Applicants :
                 \/ /\ req'[a].st = req[a].st /\ req'[a].posted = req[a].posted
                    /\ req'[a].waited = req[a].waited /\ req'[a].fresh = req[a].fresh
                    /\ req'[a].code = req[a].code
                 \/ /\ req'[a].st \notin {"wait", "decide"}
                    /\ req'[a].posted => req'[a].st # "refused"
      PROVE  Undisturbed'
  <2>1. ASSUME NEW a \in Applicants PROVE (Found(a)' => ref'.st = "done") /\ InTime(a)'
    <3>1. CASE /\ req'[a].st = req[a].st /\ req'[a].posted = req[a].posted
               /\ req'[a].waited = req[a].waited /\ req'[a].fresh = req[a].fresh
               /\ req'[a].code = req[a].code
      <4>1. Found(a)' => ref'.st = "done"
        BY <1>2, <1>4, <3>1 DEF Found, HasCode
      <4>2. req[a].st \in {"wait", "decide"} /\ AnswerIn(a, inbox) => AnswerIn(a, inbox)'
        BY <1>3, <1>4, <3>1 DEF AnswerIn
      <4>3. /\ AnswerIn(a, ref.page) => AnswerIn(a, ref.page)'
            /\ AnswerIn(a, cache) => AnswerIn(a, cache)'
        BY <1>4, <3>1 DEF AnswerIn
      <4>4. InTime(a)
        BY <1>2, <1>4
      <4>5. InTime(a)'
        BY <1>4, <3>1, <4>2, <4>3, <4>4 DEF InTime
      <4>6. QED
        BY <4>1, <4>5
    <3>2. CASE /\ req'[a].st \notin {"wait", "decide"}
               /\ req'[a].posted => req'[a].st # "refused"
      BY <3>2 DEF Found, InTime
    <3>3. QED
      BY <1>4, <3>1, <3>2
  <2>2. api' /\ \A m \in outdated' \cup del' : m.code = 0
    BY <1>2, <1>4
  <2>3. QED
    BY <2>1, <2>2 DEF Undisturbed
<1>5. CASE UNCHANGED verifyVars
  BY <1>4, <1>5 DEF verifyVars
<1>6. ASSUME NEW a \in Applicants, SendMessage(a) PROVE Undisturbed'
  BY <1>4, <1>6 DEF SendMessage, Arrives
<1>7. CASE OtherMessage
  BY <1>4, <1>7 DEF OtherMessage, Arrives
<1>8. CASE GrowOld
  BY <1>4, <1>8 DEF GrowOld
<1>9. CASE Expire
  <2>1. \A a \in Applicants : req'[a] = req[a] \/ req'[a] = [req[a] EXCEPT !.lapsed = TRUE]
    BY <1>9 DEF Expire, Lapsed
  <2>2. \A a \in Applicants :
            /\ req'[a].st = req[a].st /\ req'[a].posted = req[a].posted
            /\ req'[a].waited = req[a].waited /\ req'[a].fresh = req[a].fresh
            /\ req'[a].code = req[a].code
    BY <1>1, <2>1, ZenonT(30) DEF RequestType
  <2>3. QED
    BY <1>4, <1>9, <2>2 DEF Expire
<1>10. ASSUME NEW a \in Applicants, challenge_start(a) PROVE Undisturbed'
  <2>1. /\ req'[a].st = "none" /\ \A b \in Applicants \ {a} : req'[b] = req[b]
    BY <1>1, <1>10 DEF challenge_start, NoRequest
  <2>2. QED
    BY <1>4, <1>10, <2>1 DEF challenge_start
(* The request that is made now has waited for nothing yet.                *)
<1>11. ASSUME NEW a \in Applicants, challenge_finish(a) PROVE Undisturbed'
  <2>1. UNCHANGED <<mishaps, api, ref, cache, inbox, outdated, del>>
    BY <1>11, Zenon DEF challenge_finish
  <2>2. /\ req'[a].st # "decide" /\ req'[a].st # "refused" /\ req'[a].waited = 0
        /\ \A b \in Applicants \ {a} : req'[b] = req[b]
    BY <1>1, <1>11, Zenon DEF challenge_finish
  <2>3. req'[a].posted => AnswerIn(a, inbox)'
    <3>1. /\ req'[a].code = known[a].code
          /\ req'[a].posted =>
                 {m \in inbox \ aged : m.from = a /\ m.code = known[a].code} # {}
      BY <1>1, <1>11, Zenon DEF challenge_finish
    <3>2. QED
      BY <2>1, <3>1 DEF AnswerIn
  <2>4. ~Found(a)' /\ InTime(a)'
    <3>1. ~req'[a].fresh
      BY <1>1, <1>11, Zenon DEF challenge_finish
    <3>2. InTime(a)'
      BY <2>2, <2>3 DEF InTime
    <3>3. QED
      BY <3>1, <3>2, Zenon DEF Found
  <2>5. ASSUME NEW b \in Applicants \ {a} PROVE (Found(b)' => ref'.st = "done") /\ InTime(b)'
    BY <1>2, <2>1, <2>2, RequestKept
  <2>6. QED
    BY <1>2, <2>1, <2>4, <2>5 DEF Undisturbed
(* Who is told that the code is there finds the message of the account     *)
(* with that code, since the code is nobody else's.                        *)
<1>12. ASSUME NEW a \in Applicants, StopWaiting(a) PROVE Undisturbed'
  <2>1. UNCHANGED <<mishaps, api, ref, cache, inbox, outdated, del>>
    BY <1>12 DEF StopWaiting
  <2>2. /\ req'[a].st = "decide" /\ req[a].st = "wait" /\ req'[a].code = req[a].code
        /\ req'[a].posted = req[a].posted
        /\ \A b \in Applicants \ {a} : req'[b] = req[b]
    BY <1>1, <1>12 DEF StopWaiting, Found, RequestType
  <2>3. InTime(a)
    BY <1>2, <2>1
  <2>4. ASSUME req[a].posted PROVE ref.st = "done" /\ AnswerIn(a, cache)
    <3>1. Found(a)
      BY <1>12, <2>2, <2>3, <2>4, FlushPeriodsAssumption DEF StopWaiting, InTime
    <3>2. PICK e \in cache : e.code = req[a].code
      BY <3>1 DEF Found, HasCode
    <3>3. e \in sent /\ e.from \in Applicants /\ e.code \in Nat \ {0}
      BY <1>1, <1>3, <2>2, <3>2 DEF MessagesSent, MessageType
    <3>4. Used(e.from, e.code) /\ Used(a, e.code)
      BY <3>2, <3>3 DEF Used
    <3>5. e.from = a
      BY <1>1, <3>3, <3>4 DEF CodesOwned
    <3>6. QED
      BY <1>2, <2>1, <3>1, <3>2, <3>5 DEF AnswerIn
  <2>5. ~Found(a)' /\ InTime(a)'
    BY <2>1, <2>2, <2>3, <2>4, Zenon DEF Found, InTime, AnswerIn
  <2>6. ASSUME NEW b \in Applicants \ {a} PROVE (Found(b)' => ref'.st = "done") /\ InTime(b)'
    BY <1>2, <2>1, <2>2, RequestKept, Zenon
  <2>7. QED
    BY <1>2, <2>1, <2>5, <2>6 DEF Undisturbed
<1>13. ASSUME NEW a \in Applicants, Decide(a) PROVE Undisturbed'
  <2>1. UNCHANGED <<mishaps, api, ref, cache, inbox, outdated, del>> /\ req[a].st = "decide"
    BY <1>13 DEF Decide
  <2>2. /\ req'[a].st = IF Matches(a) THEN "granted" ELSE "refused"
        /\ req'[a].posted = req[a].posted
        /\ \A b \in Applicants \ {a} : req'[b] = req[b]
    BY <1>1, <1>13 DEF Decide, RequestType
  <2>3. req[a].posted => Matches(a)
    BY <1>2, <2>1 DEF InTime, AnswerIn, Matches
  <2>4. QED
    BY <1>4, <2>1, <2>2, <2>3
<1>14. ASSUME NEW a \in Applicants, ChallengeFinished(a) PROVE Undisturbed'
  <2>1. UNCHANGED <<mishaps, api, ref, cache, inbox, outdated, del>>
    BY <1>14 DEF ChallengeFinished
  <2>2. /\ req'[a].st = "key"
        /\ \A b \in Applicants \ {a} :
               req'[b] = req[b] \/ req'[b] = [req[b] EXCEPT !.lapsed = TRUE]
    BY <1>1, <1>14 DEF ChallengeFinished, Lapsed, RequestType
  <2>3. ASSUME NEW b \in Applicants \ {a}
        PROVE  /\ req'[b].st = req[b].st /\ req'[b].posted = req[b].posted
               /\ req'[b].waited = req[b].waited /\ req'[b].fresh = req[b].fresh
               /\ req'[b].code = req[b].code
    <3>1. req[b] \in RequestType
      BY <1>1
    <3>2. CASE req'[b] = req[b]
      BY <3>2
    <3>3. CASE req'[b] = [req[b] EXCEPT !.lapsed = TRUE]
      BY <3>1, <3>3 DEF RequestType
    <3>4. QED
      BY <2>2, <3>2, <3>3
  <2>4. QED
    BY <1>4, <2>1, <2>2, <2>3
(* Nobody is found, so no posted request has waited for a period already.  *)
<1>15. CASE NextPeriod
  <2>1. /\ mishaps = {} /\ ref.st = "done" /\ ref'.st = "idle"
        /\ UNCHANGED <<api, cache, inbox, outdated, del>>
    BY <1>1, <1>2, <1>15 DEF NextPeriod, NoPage, MessagesSent
  <2>2. ASSUME NEW a \in Applicants PROVE (Found(a)' => ref'.st = "done") /\ InTime(a)'
    <3>1. /\ req'[a].st = req[a].st /\ req'[a].code = req[a].code
          /\ req'[a].fresh = req[a].fresh /\ req'[a].posted = req[a].posted
          /\ req'[a].waited \in {req[a].waited, req[a].waited + 1}
      BY <1>1, <1>15 DEF NextPeriod, RequestType
    <3>2. ~Found(a) /\ req[a].st # "decide"
      BY <1>15 DEF NextPeriod
    <3>3. ~Found(a)'
      BY <2>1, <3>1, <3>2 DEF Found, HasCode
    <3>4. InTime(a)
      BY <1>2, <2>1
    <3>5. req[a].posted /\ req[a].st = "wait" => req[a].waited = 0
      BY <2>1, <3>2, <3>4 DEF InTime, Found, HasCode, AnswerIn
    <3>6. InTime(a)'
      BY <2>1, <3>1, <3>2, <3>4, <3>5 DEF InTime, AnswerIn
    <3>7. QED
      BY <3>3, <3>6
  <2>3. QED
    BY <1>2, <2>1, <2>2 DEF Undisturbed
<1>16. CASE AskForMessages
  <2>1. /\ mishaps = {} /\ ref.st = "idle" /\ ref'.st = "asked"
        /\ ~(Cardinality(inbox) > PageSize) /\ ref'.page = FirstPage
        /\ UNCHANGED <<api, req, cache, inbox, outdated, del>>
    BY <1>16 DEF AskForMessages
  <2>2. Cardinality(inbox) \in Nat
    BY <1>1, FS_Subset, FS_CardinalityType DEF MessagesSent
  <2>3. ref'.page = inbox
    BY <1>1, <2>1, <2>2, WholeInbox, PageSizeAssumption
  <2>4. ASSUME NEW a \in Applicants PROVE ~Found(a)' /\ InTime(a)'
    <3>1. ~Found(a) /\ InTime(a)
      BY <1>2, <2>1
    <3>2. QED
      BY <2>1, <2>3, <3>1 DEF Found, HasCode, InTime, AnswerIn
  <2>5. QED
    BY <1>2, <2>1, <2>4 DEF Undisturbed
<1>17. CASE flush_cache
  <2>1. /\ mishaps = {} /\ ref.st = "asked" /\ ref'.st = "done"
        /\ \A m \in ref.page : m.from # "garbled"
        /\ \A m \in ref.old : m.code = 0
        /\ cache' = {m \in Parsed(ref.page) : m \notin ref.old /\ m.from # "chat"}
        /\ outdated' = outdated \cup (Parsed(ref.page) \cap ref.old)
        /\ UNCHANGED <<api, inbox, del>>
    BY <1>17, SMTT(30) DEF flush_cache, NoPage
  <2>2. Parsed(ref.page) = ref.page
    BY <2>1 DEF Parsed
  <2>3. \A m \in outdated' \cup del' : m.code = 0
    BY <1>2, <2>1
  <2>4. ASSUME NEW a \in Applicants PROVE InTime(a)'
    <3>1. /\ req'[a].st = req[a].st /\ req'[a].code = req[a].code
          /\ req'[a].posted = req[a].posted /\ req'[a].waited = req[a].waited
          /\ req[a].st = "wait" => req'[a].fresh
      BY <1>1, <1>17 DEF flush_cache, RequestType
    <3>2. InTime(a) /\ a # "chat"
      BY <1>2, <2>1, ApplicantsAssumption
    <3>3. req[a].st = "wait" /\ AnswerIn(a, ref.page) => AnswerIn(a, cache)'
      BY <1>3, <2>1, <2>2, <3>1, <3>2 DEF AnswerIn
    <3>4. AnswerIn(a, inbox) => AnswerIn(a, inbox)'
      BY <2>1, <3>1 DEF AnswerIn
    <3>5. QED
      BY <2>1, <3>1, <3>2, <3>3, <3>4, Zenon DEF InTime
  <2>5. QED
    BY <1>2, <2>1, <2>3, <2>4 DEF Undisturbed
<1>18. CASE delete_outdated
  <2>1. \A b \in Batches(outdated) : b \subseteq outdated
    BY DEF Batches, kSubset
  <2>2. del' \subseteq outdated
    BY <1>18, <2>1 DEF delete_outdated
  <2>3. QED
    BY <1>4, <1>18, <2>2 DEF delete_outdated
<1>19. CASE Deleted
  <2>1. mishaps = {} /\ \A m \in del : m.code = 0
    BY <1>2, <1>19 DEF Deleted
  <2>2. QED
    BY <1>4, <1>19, <2>1, Zenon DEF Deleted
<1>20. CASE DeletionFailed
  BY <1>4, <1>20 DEF DeletionFailed
<1>21. ~RefreshFailed /\ ~reload_in_place
  BY DEF RefreshFailed, reload_in_place
<1>22. QED
  BY <1>5, <1>6, <1>7, <1>8, <1>9, <1>10, <1>11, <1>12, <1>13, <1>14, <1>15, <1>16, <1>17,
     <1>18, <1>19, <1>20, <1>21 DEF VerifyNext, Refresh, Delete, Verify

(* A client whose answer was in the inbox is refused only if something     *)
(* went wrong outside: whatever the order in which verify_account, the     *)
(* refresher and the deleter run.                                          *)
THEOREM RefusalsHaveACause == VerifySpec => []RefusalHasCause
<1>1. VerifyInit => VerifyInv
  <2> SUFFICES ASSUME VerifyInit PROVE VerifyInv
    OBVIOUS
  <2>1. ChallengeInv
    BY DEF VerifyInit, ChallengeInv, ChallengeTypes, OwnChallenge, NoChallenge, NoAnswer,
           NoRequest, RequestType, RequestStage, Idle
  <2>2. MessagesSent
    BY FS_EmptySet DEF VerifyInit, MessagesSent, NoPage
  <2>3. \A a \in Applicants : /\ req[a].code = 0 /\ req[a].st = "none" /\ ~req[a].posted
                               /\ known[a] = NoAnswer /\ known[a].code = 0
    BY DEF VerifyInit, NoRequest, NoAnswer
  <2>4. chal.account = "none" /\ codes = 0 /\ sent = {}
    BY DEF VerifyInit, NoChallenge
  <2>5. CodesOwned
    BY <2>3, <2>4, ApplicantsAssumption DEF CodesOwned, Used, Idle
  <2>6. Undisturbed
    BY <2>3 DEF VerifyInit, Undisturbed, Found, InTime
  <2>7. QED
    BY <2>1, <2>2, <2>5, <2>6 DEF VerifyInv
<1>2. VerifyInv /\ [VerifyNext]_verifyVars => VerifyInv'
  BY ChallengeInvStep, MessagesSentStep, CodesOwnedStep, UndisturbedStep DEF VerifyInv
<1>3. VerifyInv => RefusalHasCause
  BY DEF VerifyInv, Undisturbed, InTime, RefusalHasCause
<1>4. QED
  BY <1>1, <1>2, <1>3, PTL DEF VerifySpec

------------------------------------------------------------------------------
(* Player counts *)

CountSpec == CountInit /\ [][CountNext]_countVars

Answer == GameServers \X (1 .. MaxRounds)

Count == [round : 1 .. MaxRounds, counted : SUBSET Answer]

Rounds(entries) == {entries[i].round : i \in DOMAIN entries}

Distinct(entries) ==
    \A i, j \in DOMAIN entries : entries[i].round = entries[j].round => i = j

CountTypes ==
    /\ pinger \in [round : 0 .. MaxRounds, receiving : BOOLEAN, counted : SUBSET Answer]
    /\ pinger.receiving => pinger.round # 0
    /\ answers \subseteq Answer
    /\ history \in Seq(Count) /\ buffers \in [Visitors -> Seq(Count)]
    /\ table \in [1 .. MaxRounds -> {0, 1}]
    /\ troubles \in Seq({"lost", "late", "insert"})

(* Only rounds that are over have been recorded, each of them in one place. *)
CountedOnce ==
    /\ Distinct(history) /\ \A v \in Visitors : Distinct(buffers[v])
    /\ \A r \in Rounds(history) :
          /\ r <= Finished /\ table[r] = 0
          /\ \A v \in Visitors : r \notin Rounds(buffers[v])
    /\ \A v \in Visitors : \A r \in Rounds(buffers[v]) :
          /\ r <= Finished /\ table[r] = 0
          /\ \A w \in Visitors : r \in Rounds(buffers[w]) => w = v
    /\ \A r \in 1 .. MaxRounds : table[r] # 0 => r <= Finished

InsertFailed == \E i \in DOMAIN troubles : troubles[i] = "insert"

(* A round that is over is recorded, until it is a month old.              *)
CountKept ==
    \A r \in 1 .. Finished :
        \/ r \in monthOld \/ r \in Rounds(history) \/ table[r] # 0
        \/ \E v \in Visitors : r \in Rounds(buffers[v])
        \/ InsertFailed

CountInv == CountTypes /\ CountedOnce /\ CountKept

(* What a trouble adds to those before it.                                 *)
LEMMA TroubleFacts ==
    ASSUME CountTypes, NEW what \in {"lost", "late", "insert"}, Trouble(what)
    PROVE  /\ troubles' \in Seq({"lost", "late", "insert"})
           /\ InsertFailed => InsertFailed'
           /\ what = "insert" => InsertFailed'
<1>1. /\ Len(troubles) \in Nat /\ DOMAIN troubles = 1 .. Len(troubles)
      /\ troubles' \in Seq({"lost", "late", "insert"})
      /\ DOMAIN troubles' = 1 .. Len(troubles) + 1
      /\ \A i \in 1 .. Len(troubles) : troubles'[i] = troubles[i]
      /\ troubles'[Len(troubles) + 1] = what
  BY DEF CountTypes, Trouble
<1> QED
  BY <1>1 DEF InsertFailed

(* Entries are of rounds that were begun.                                  *)
LEMMA RoundsOfCounts == ASSUME NEW s \in Seq(Count) PROVE Rounds(s) \subseteq 1 .. MaxRounds
<1>1. \A i \in DOMAIN s : s[i] \in Count
  OBVIOUS
<1>2. \A e \in Count : e.round \in 1 .. MaxRounds
  BY DEF Count
<1> QED
  BY <1>1, <1>2 DEF Rounds

(* The entry that ends a round is appended to the others.                  *)
LEMMA AppendCount ==
    ASSUME NEW s \in Seq(Count), NEW e \in Count
    PROVE  /\ Append(s, e) \in Seq(Count)
           /\ Rounds(Append(s, e)) = Rounds(s) \cup {e.round}
           /\ Distinct(s) /\ e.round \notin Rounds(s) => Distinct(Append(s, e))
<1> DEFINE t == Append(s, e)
<1>1. /\ t \in Seq(Count) /\ Len(s) \in Nat
      /\ DOMAIN s = 1 .. Len(s) /\ DOMAIN t = 1 .. Len(s) + 1
      /\ \A i \in 1 .. Len(s) : t[i] = s[i]
      /\ t[Len(s) + 1] = e
  OBVIOUS
<1> HIDE DEF t
<1>2. Rounds(t) = Rounds(s) \cup {e.round}
  BY <1>1 DEF Rounds
<1>3. Distinct(s) /\ e.round \notin Rounds(s) => Distinct(t)
  BY <1>1 DEF Rounds, Distinct
<1> QED
  BY <1>1, <1>2, <1>3 DEF t

(* The first entry that is inserted leaves the others.                     *)
LEMMA TailCount ==
    ASSUME NEW s \in Seq(Count), s # << >>
    PROVE  /\ Tail(s) \in Seq(Count) /\ Head(s) \in Count
           /\ Rounds(s) = Rounds(Tail(s)) \cup {Head(s).round}
           /\ Distinct(s) => Distinct(Tail(s)) /\ Head(s).round \notin Rounds(Tail(s))
<1> DEFINE t == Tail(s)
<1>1. /\ t \in Seq(Count) /\ Head(s) \in Count /\ Head(s) = s[1]
      /\ Len(s) \in Nat /\ Len(s) >= 1
      /\ DOMAIN s = 1 .. Len(s) /\ DOMAIN t = 1 .. Len(s) - 1
      /\ \A i \in 1 .. Len(s) - 1 : t[i] = s[i + 1]
  OBVIOUS
<1> HIDE DEF t
<1>2. Rounds(s) = Rounds(t) \cup {Head(s).round}
  <2>1. ASSUME NEW r \in Rounds(s) PROVE r \in Rounds(t) \cup {Head(s).round}
    <3>1. PICK i \in 1 .. Len(s) : s[i].round = r
      BY <1>1, <2>1 DEF Rounds
    <3>2. CASE i = 1
      BY <1>1, <3>1, <3>2
    <3>3. CASE i # 1
      <4>1. i - 1 \in DOMAIN t /\ t[i - 1] = s[i]
        BY <1>1, <3>3
      <4> QED
        BY <3>1, <4>1 DEF Rounds
    <3> QED
      BY <3>2, <3>3
  <2>2. ASSUME NEW r \in Rounds(t) \cup {Head(s).round} PROVE r \in Rounds(s)
    <3>1. CASE r = Head(s).round
      BY <1>1, <3>1 DEF Rounds
    <3>2. CASE r \in Rounds(t)
      <4>1. PICK i \in 1 .. Len(s) - 1 : t[i].round = r
        BY <1>1, <3>2 DEF Rounds
      <4>2. i + 1 \in DOMAIN s /\ s[i + 1].round = r
        BY <1>1, <4>1
      <4> QED
        BY <4>2 DEF Rounds
    <3> QED
      BY <2>2, <3>1, <3>2
  <2> QED
    BY <2>1, <2>2
<1>3. ASSUME Distinct(s) PROVE Distinct(t) /\ Head(s).round \notin Rounds(t)
  <2>1. ASSUME NEW i \in DOMAIN t, NEW j \in DOMAIN t, t[i].round = t[j].round PROVE i = j
    <3>1. i + 1 \in DOMAIN s /\ j + 1 \in DOMAIN s /\ s[i + 1].round = s[j + 1].round
      BY <1>1, <2>1
    <3> QED
      BY <1>1, <1>3, <3>1 DEF Distinct
  <2>2. ASSUME NEW i \in DOMAIN t PROVE t[i].round # Head(s).round
    <3>1. i + 1 \in DOMAIN s /\ 1 \in DOMAIN s /\ i + 1 # 1 /\ t[i] = s[i + 1]
      BY <1>1
    <3> QED
      BY <1>1, <1>3, <3>1 DEF Distinct
  <2> QED
    BY <2>1, <2>2 DEF Distinct, Rounds
<1> QED
  BY <1>1, <1>2, <1>3 DEF t

(* The end of a round.                                                     *)
LEMMA EndRoundStep ==
    ASSUME CountInv, pinger.receiving, NEW counted \in SUBSET Answer, EndRound(counted),
           answers' \subseteq answers, UNCHANGED <<buffers, table, monthOld>>,
           troubles' \in Seq({"lost", "late", "insert"}), InsertFailed => InsertFailed'
    PROVE  CountInv'
<1> DEFINE e == [round |-> pinger.round, counted |-> counted]
<1>1. /\ pinger.round \in 1 .. MaxRounds /\ pinger.receiving
      /\ Finished = pinger.round - 1
  BY RoundsAssumption DEF CountInv, CountTypes, Finished
<1>2. /\ pinger' = [pinger EXCEPT !.receiving = FALSE, !.counted = counted]
      /\ pinger'.round = pinger.round /\ ~pinger'.receiving
      /\ pinger' \in [round : 0 .. MaxRounds, receiving : BOOLEAN, counted : SUBSET Answer]
  BY Zenon DEF EndRound, CountInv, CountTypes
<1>3. Finished' = Finished + 1 /\ Finished' = pinger.round /\ Finished \in Nat
  BY <1>1, <1>2 DEF Finished
<1>4. /\ e \in Count /\ e.round = pinger.round
      /\ history \in Seq(Count) /\ history' = Append(history, e)
  BY <1>1 DEF Count, EndRound, CountInv, CountTypes
<1>5. /\ history' \in Seq(Count) /\ Rounds(history') = Rounds(history) \cup {pinger.round}
      /\ Distinct(history) /\ pinger.round \notin Rounds(history) => Distinct(history')
  BY <1>4, AppendCount
<1> HIDE DEF e
<1>6. /\ pinger.round \notin Rounds(history) /\ table[pinger.round] = 0
      /\ \A v \in Visitors : pinger.round \notin Rounds(buffers[v])
  BY <1>1, <1>3 DEF CountInv, CountedOnce, CountTypes
<1>7. CountTypes'
  BY <1>2, <1>5 DEF CountInv, CountTypes
<1>8. /\ \A r \in Rounds(history) : r \in Nat
      /\ \A v \in Visitors : \A r \in Rounds(buffers[v]) : r \in Nat
  BY RoundsAssumption, RoundsOfCounts DEF CountInv, CountTypes
<1>10. CountedOnce'
  <2>1. \A n \in Nat : n <= Finished => n <= Finished' /\ n # pinger.round
    BY <1>1, <1>3, RoundsAssumption
  <2>2. Distinct(history') /\ pinger.round <= Finished'
    BY <1>1, <1>3, <1>5, <1>6 DEF CountInv, CountedOnce
  <2>3. ASSUME NEW r \in Rounds(history')
        PROVE  /\ r <= Finished' /\ table[r] = 0
               /\ \A v \in Visitors : r \notin Rounds(buffers[v])
    BY <1>5, <1>6, <1>8, <2>1, <2>2 DEF CountInv, CountedOnce
  <2>4. ASSUME NEW v \in Visitors, NEW r \in Rounds(buffers[v])
        PROVE  /\ r <= Finished' /\ table[r] = 0
               /\ \A w \in Visitors : r \in Rounds(buffers[w]) => w = v
    BY <1>8, <2>1 DEF CountInv, CountedOnce
  <2>5. ASSUME NEW r \in 1 .. MaxRounds, table[r] # 0 PROVE r <= Finished'
    BY <2>1, <2>5, RoundsAssumption DEF CountInv, CountedOnce
  <2> QED
    BY <2>2, <2>3, <2>4, <2>5 DEF CountInv, CountedOnce
<1>11. CountKept'
  BY <1>1, <1>3, <1>5 DEF CountInv, CountKept
<1> QED
  BY <1>7, <1>10, <1>11 DEF CountInv

(* A request takes the history; nobody else can take it again.             *)
LEMMA PlayerCountsStep ==
    ASSUME CountInv, NEW v \in Visitors, player_counts(v) PROVE CountInv'
<1>1. /\ history' = << >> /\ UNCHANGED <<pinger, answers, table, monthOld, troubles>>
      /\ buffers \in [Visitors -> Seq(Count)] /\ buffers[v] = << >>
      /\ buffers' = [buffers EXCEPT ![v] = history] /\ history \in Seq(Count)
  BY DEF player_counts, Taken, CountInv, CountTypes
<1>2. /\ buffers' \in [Visitors -> Seq(Count)] /\ buffers'[v] = history
      /\ \A w \in Visitors \ {v} : buffers'[w] = buffers[w]
  BY <1>1
<1>3. Rounds(history') = {} /\ Distinct(history') /\ Rounds(buffers[v]) = {}
  BY <1>1 DEF Rounds, Distinct
<1>4. /\ Rounds(buffers'[v]) = Rounds(history) /\ Distinct(history) => Distinct(buffers'[v])
      /\ \A w \in Visitors \ {v} : /\ Rounds(buffers'[w]) = Rounds(buffers[w])
                                   /\ Distinct(buffers[w]) => Distinct(buffers'[w])
  BY <1>2
<1>5. Finished' = Finished /\ (InsertFailed' <=> InsertFailed)
  BY <1>1 DEF Finished, InsertFailed
<1>6. CountTypes'
  BY <1>1, <1>2 DEF CountInv, CountTypes
<1>7. CountedOnce'
  BY <1>1, <1>3, <1>4, <1>5 DEF CountInv, CountedOnce
<1>8. CountKept'
  BY <1>1, <1>3, <1>4, <1>5, SMTT(30) DEF CountInv, CountKept
<1> QED
  BY <1>6, <1>7, <1>8 DEF CountInv

(* An entry moves from what a request has taken into the table; rows of    *)
(* more than a month ago are deleted after the last one.                   *)
LEMMA InsertStep ==
    ASSUME CountInv, NEW v \in Visitors, insert_player_count_history(v) PROVE CountInv'
<1> DEFINE s == buffers[v]
           k == Head(s).round
<1>1. /\ UNCHANGED <<pinger, answers, history, monthOld, troubles>> /\ s # << >>
      /\ buffers \in [Visitors -> Seq(Count)] /\ buffers' = [buffers EXCEPT ![v] = Tail(s)]
      /\ s \in Seq(Count) /\ table \in [1 .. MaxRounds -> {0, 1}]
  BY DEF insert_player_count_history, CountInv, CountTypes
<1>2. /\ Tail(s) \in Seq(Count) /\ Head(s) \in Count
      /\ Rounds(s) = Rounds(Tail(s)) \cup {k}
      /\ Distinct(s) => Distinct(Tail(s)) /\ k \notin Rounds(Tail(s))
  BY <1>1, TailCount
<1>3. k \in 1 .. MaxRounds /\ k \in Rounds(s)
  BY <1>2, Zenon DEF Count
<1>4. k <= Finished /\ table[k] = 0 /\ Distinct(s)
  BY <1>3 DEF CountInv, CountedOnce
<1>5. /\ table' \in [1 .. MaxRounds -> {0, 1}]
      /\ table'[k] = 1 \/ k \in monthOld
      /\ \A r \in 1 .. MaxRounds : r # k => \/ table'[r] = table[r]
                                            \/ r \in monthOld /\ table'[r] = 0
  <2> DEFINE rows == [table EXCEPT ![k] = @ + 1]
  <2>1. /\ rows \in [1 .. MaxRounds -> {0, 1}] /\ rows[k] = 1
        /\ \A r \in 1 .. MaxRounds : r # k => rows[r] = table[r]
    BY <1>1, <1>3, <1>4
  <2>2. table' = rows \/ table' = [r \in 1 .. MaxRounds |-> IF r \in monthOld THEN 0 ELSE rows[r]]
    BY DEF insert_player_count_history
  <2> HIDE DEF rows, k
  <2> QED
    BY <1>3, <2>1, <2>2, Zenon
<1>6. /\ buffers' \in [Visitors -> Seq(Count)] /\ buffers'[v] = Tail(s)
      /\ \A w \in Visitors \ {v} : buffers'[w] = buffers[w]
  BY <1>1, <1>2
<1>7. /\ Rounds(s) = Rounds(buffers'[v]) \cup {k} /\ k \notin Rounds(buffers'[v])
      /\ Distinct(buffers'[v])
      /\ \A w \in Visitors \ {v} : /\ Rounds(buffers'[w]) = Rounds(buffers[w])
                                   /\ Distinct(buffers[w]) => Distinct(buffers'[w])
  BY <1>2, <1>4, <1>6
<1>8. /\ Finished' = Finished /\ (InsertFailed' <=> InsertFailed)
      /\ Rounds(history') = Rounds(history) /\ (Distinct(history) => Distinct(history'))
  BY <1>1 DEF Finished, InsertFailed
<1>9. /\ \A r \in Rounds(history) : r \in 1 .. MaxRounds
      /\ \A w \in Visitors : \A r \in Rounds(buffers[w]) : r \in 1 .. MaxRounds
  BY RoundsOfCounts DEF CountInv, CountTypes
<1>10. CountTypes'
  BY <1>1, <1>5, <1>6 DEF CountInv, CountTypes
<1>11. /\ k \notin Rounds(history)
       /\ \A w \in Visitors \ {v} : k \notin Rounds(buffers[w])
  BY <1>3 DEF CountInv, CountedOnce
<1> HIDE DEF k, s
<1>12. CountedOnce'
  <2>1. Distinct(history') /\ \A w \in Visitors : Distinct(buffers'[w])
    BY <1>7, <1>8 DEF CountInv, CountedOnce
  <2>2. ASSUME NEW r \in 1 .. MaxRounds, r <= Finished, r # k, table[r] = 0
        PROVE  r <= Finished' /\ table'[r] = 0
    BY <1>5, <1>8, <2>2
  <2>3. ASSUME NEW r \in Rounds(history')
        PROVE  /\ r <= Finished' /\ table'[r] = 0
               /\ \A w \in Visitors : r \notin Rounds(buffers'[w])
    <3>1. r \in Rounds(history) /\ r # k /\ \A w \in Visitors : r \notin Rounds(buffers[w])
      BY <1>8, <1>11, <2>3 DEF CountInv, CountedOnce
    <3>2. \A w \in Visitors : r \notin Rounds(buffers'[w])
      BY <1>7, <3>1 DEF s
    <3> QED
      BY <1>9, <2>2, <3>1, <3>2 DEF CountInv, CountedOnce
  <2>4. ASSUME NEW w \in Visitors, NEW r \in Rounds(buffers'[w])
        PROVE  /\ r <= Finished' /\ table'[r] = 0
               /\ \A u \in Visitors : r \in Rounds(buffers'[u]) => u = w
    <3>1. \A u \in Visitors : Rounds(buffers'[u]) \subseteq Rounds(buffers[u])
      BY <1>7 DEF s
    <3>2. r \in Rounds(buffers[w]) /\ r # k
      BY <1>7, <1>11, <2>4, <3>1
    <3> QED
      BY <1>9, <2>2, <3>1, <3>2 DEF CountInv, CountedOnce
  <2>5. ASSUME NEW r \in 1 .. MaxRounds, table'[r] # 0 PROVE r <= Finished'
    BY <1>4, <1>5, <1>8, <2>5 DEF CountInv, CountedOnce
  <2> QED
    BY <2>1, <2>3, <2>4, <2>5 DEF CountedOnce
<1>13. CountKept'
  <2> SUFFICES ASSUME NEW r \in 1 .. Finished
               PROVE  \/ r \in monthOld \/ r \in Rounds(history) \/ table'[r] # 0
                      \/ \E w \in Visitors : r \in Rounds(buffers'[w])
                      \/ InsertFailed
    BY <1>1, <1>8 DEF CountKept
  <2>1. CASE r = k
    BY <1>5, <2>1
  <2>2. CASE r # k /\ \E w \in Visitors : r \in Rounds(buffers[w])
    BY <1>7, <2>2 DEF s
  <2>3. CASE r # k /\ r \in 1 .. MaxRounds /\ table[r] # 0
    BY <1>5, <2>3
  <2>4. r \in 1 .. MaxRounds
    BY RoundsAssumption DEF CountInv, CountTypes, Finished
  <2> QED
    BY <2>1, <2>2, <2>3, <2>4 DEF CountInv, CountKept
<1> QED
  BY <1>10, <1>12, <1>13 DEF CountInv

(* The invariant says that a round is recorded at most once, and once if   *)
(* nothing has failed.                                                     *)
LEMMA InvIsOnce == CountInv => EachRoundOnce
<1> SUFFICES ASSUME CountInv, NEW r \in 1 .. MaxRounds
             PROVE  /\ \A p, q \in Records(r) : p = q
                    /\ r \in 1 .. Finished /\ r \notin monthOld /\ Records(r) = {}
                           => InsertFailed
  BY DEF EachRoundOnce, InsertFailed
<1>1. ASSUME NEW p \in Records(r)
      PROVE  \/ \E i \in DOMAIN history : history[i].round = r /\ p = <<<<"history">>, i>>
             \/ table[r] = 1 /\ p = <<<<"table">>, 1>>
             \/ \E v \in Visitors : \E i \in DOMAIN buffers[v] :
                   buffers[v][i].round = r /\ p = <<<<"taken", v>>, i>>
  <2>1. CASE p \in {<<"history">>} \X At(history, r)
    BY <2>1 DEF At
  <2>2. CASE p \in {<<"table">>} \X (1 .. table[r])
    <3>1. p = <<<<"table">>, p[2]>> /\ p[2] \in 1 .. table[r]
      BY <2>2
    <3>2. \A n \in 1 .. table[r] : table[r] = 1 /\ n = 1
      BY DEF CountInv, CountTypes
    <3> QED
      BY <3>1, <3>2
  <2>3. CASE \E v \in Visitors : p \in {<<"taken", v>>} \X At(buffers[v], r)
    BY <2>3 DEF At
  <2> QED
    BY <1>1, <2>1, <2>2, <2>3 DEF Records
<1>2. /\ r \in Rounds(history) <=> \E i \in DOMAIN history : history[i].round = r
      /\ \A v \in Visitors : r \in Rounds(buffers[v])
                                 <=> \E i \in DOMAIN buffers[v] : buffers[v][i].round = r
  BY DEF Rounds
<1>3. ASSUME NEW p \in Records(r), NEW q \in Records(r) PROVE p = q
  BY <1>1, <1>2, <1>3 DEF CountInv, CountedOnce, Distinct
<1>4. ASSUME r \in 1 .. Finished, r \notin monthOld, Records(r) = {} PROVE InsertFailed
  <2>1. /\ \A i \in At(history, r) : <<<<"history">>, i>> \in Records(r)
        /\ \A n \in 1 .. table[r] : <<<<"table">>, n>> \in Records(r)
        /\ \A v \in Visitors : \A i \in At(buffers[v], r) : <<<<"taken", v>>, i>> \in Records(r)
    BY DEF Records
  <2>2. r \notin Rounds(history) /\ \A v \in Visitors : r \notin Rounds(buffers[v])
    BY <1>2, <1>4, <2>1 DEF At
  <2>3. table[r] = 0
    BY <1>4, <2>1 DEF CountInv, CountTypes
  <2> QED
    BY <1>4, <2>2, <2>3 DEF CountInv, CountKept
<1> QED
  BY <1>3, <1>4

(* However many visitors take the history at once, and whatever answers    *)
(* are lost or late, the count of a round is recorded once and stays until *)
(* it is a month old, unless an insertion fails (get_player_count_history, *)
(* insert_player_count_history).                                           *)
THEOREM CountsAreRecordedOnce == CountSpec => []EachRoundOnce
<1>1. CountInit => CountInv
  <2> SUFFICES ASSUME CountInit PROVE CountInv
    OBVIOUS
  <2>1. /\ Rounds(history) = {} /\ Distinct(history) /\ Finished = 0
        /\ \A v \in Visitors : Rounds(buffers[v]) = {} /\ Distinct(buffers[v])
    BY DEF CountInit, Rounds, Distinct, Finished
  <2>2. CountTypes
    BY RoundsAssumption DEF CountInit, CountTypes
  <2>3. CountedOnce /\ CountKept
    BY <2>1 DEF CountedOnce, CountKept, CountInit
  <2> QED
    BY <2>2, <2>3 DEF CountInv
<1>2. CountInv /\ [CountNext]_countVars => CountInv'
  <2> SUFFICES ASSUME CountInv, [CountNext]_countVars PROVE CountInv'
    OBVIOUS
  <2>1. ASSUME UNCHANGED <<history, buffers, table>>, CountTypes', Finished' = Finished,
               InsertFailed => InsertFailed', monthOld' = monthOld \/ monthOld' = 1 .. Finished
        PROVE  CountInv'
    <3>1. CountedOnce'
      BY <2>1 DEF CountInv, CountedOnce
    <3>2. CountKept'
      BY <2>1, Zenon DEF CountInv, CountKept
    <3> QED
      BY <2>1, <3>1, <3>2 DEF CountInv
  <2>2. CASE run_pinger
    <3>1. /\ pinger' = [round |-> pinger.round + 1, receiving |-> TRUE, counted |-> {}]
          /\ ~pinger.receiving /\ pinger.round \in Nat /\ pinger.round + 1 \in 1 .. MaxRounds
      BY <2>2, RoundsAssumption DEF run_pinger, CountInv, CountTypes
    <3>2. Finished' = Finished /\ answers' \subseteq Answer
      BY <2>2, <3>1 DEF run_pinger, Finished, CountInv, CountTypes, Answer
    <3>3. CountTypes'
      BY <2>2, <3>1, <3>2 DEF run_pinger, CountInv, CountTypes
    <3> QED
      BY <2>1, <2>2, <3>2, <3>3 DEF run_pinger, InsertFailed
  <2>3. CASE Lost
    <3>1. /\ Trouble("lost") /\ answers' \subseteq answers
          /\ UNCHANGED <<pinger, history, buffers, table, monthOld>>
      BY <2>3 DEF Lost
    <3>2. CountTypes' /\ (InsertFailed => InsertFailed')
      BY <3>1, TroubleFacts DEF CountInv, CountTypes
    <3> QED
      BY <2>1, <3>1, <3>2 DEF Finished
  <2>4. CASE receive_responses
    <3>1. PICK a \in answers :
             LET counted == pinger.counted \cup {a} IN
             /\ pinger.receiving /\ answers' = answers \ {a}
             /\ \/ EndRound(counted)
                \/ pinger' = [pinger EXCEPT !.counted = counted] /\ UNCHANGED history
             /\ UNCHANGED <<buffers, table, monthOld, troubles>>
      BY <2>4, Zenon DEF receive_responses
    <3>2. pinger.counted \cup {a} \in SUBSET Answer
      BY DEF CountInv, CountTypes
    <3>3. /\ troubles' \in Seq({"lost", "late", "insert"}) /\ (InsertFailed => InsertFailed')
      BY <3>1 DEF CountInv, CountTypes, InsertFailed
    <3>4. CASE EndRound(pinger.counted \cup {a})
      BY <3>1, <3>2, <3>3, <3>4, EndRoundStep
    <3>5. CASE pinger' = [pinger EXCEPT !.counted = pinger.counted \cup {a}] /\ UNCHANGED history
      <4>1. Finished' = Finished /\ CountTypes'
        BY <3>1, <3>2, <3>5 DEF Finished, CountInv, CountTypes
      <4> QED
        BY <2>1, <3>1, <3>3, <3>5, <4>1
    <3> QED
      BY <3>1, <3>4, <3>5
  <2>5. CASE TimedOut
    <3>1. /\ pinger.receiving /\ EndRound(pinger.counted) /\ pinger.counted \in SUBSET Answer
          /\ UNCHANGED troubles \/ Trouble("late")
          /\ UNCHANGED <<answers, buffers, table, monthOld>>
      BY <2>5 DEF TimedOut, CountInv, CountTypes
    <3>2. troubles' \in Seq({"lost", "late", "insert"}) /\ (InsertFailed => InsertFailed')
      BY <3>1, TroubleFacts DEF CountInv, CountTypes, InsertFailed
    <3> QED
      BY <3>1, <3>2, EndRoundStep, Zenon
  <2>6. CASE MonthPasses
    <3>1. Finished' = Finished /\ CountTypes' /\ monthOld' = 1 .. Finished
      BY <2>6 DEF MonthPasses, Finished, CountInv, CountTypes
    <3> QED
      BY <2>1, <2>6, <3>1 DEF MonthPasses, InsertFailed
  <2>7. ASSUME NEW v \in Visitors, player_counts(v) PROVE CountInv'
    BY <2>7, PlayerCountsStep
  <2>8. ASSUME NEW v \in Visitors, insert_player_count_history(v) PROVE CountInv'
    BY <2>8, InsertStep
  <2>9. ASSUME NEW v \in Visitors, InsertFails(v) PROVE CountInv'
    <3>1. /\ Trouble("insert") /\ UNCHANGED <<pinger, answers, history, table, monthOld>>
          /\ buffers \in [Visitors -> Seq(Count)] /\ buffers' = [buffers EXCEPT ![v] = << >>]
      BY <2>9 DEF InsertFails, CountInv, CountTypes
    <3>2. /\ buffers' \in [Visitors -> Seq(Count)] /\ buffers'[v] = << >>
          /\ \A w \in Visitors \ {v} : buffers'[w] = buffers[w]
      BY <3>1
    <3>3. CountTypes' /\ InsertFailed'
      BY <3>1, <3>2, TroubleFacts DEF CountInv, CountTypes
    <3>4. /\ Rounds(buffers'[v]) = {} /\ Distinct(buffers'[v]) /\ Finished' = Finished
          /\ \A w \in Visitors \ {v} : /\ Rounds(buffers'[w]) = Rounds(buffers[w])
                                       /\ Distinct(buffers[w]) => Distinct(buffers'[w])
      BY <3>1, <3>2 DEF Rounds, Distinct, Finished
    <3>5. CountedOnce'
      BY <3>1, <3>4 DEF CountInv, CountedOnce
    <3>6. CountKept'
      BY <3>3 DEF CountKept
    <3> QED
      BY <3>3, <3>5, <3>6 DEF CountInv
  <2>10. CASE UNCHANGED countVars
    BY <2>1, <2>10 DEF countVars, CountInv, CountTypes, Finished, InsertFailed
  <2> QED
    BY <2>2, <2>3, <2>4, <2>5, <2>6, <2>7, <2>8, <2>9, <2>10 DEF CountNext
<1> QED
  BY <1>1, <1>2, InvIsOnce, PTL DEF CountSpec
=============================================================================
