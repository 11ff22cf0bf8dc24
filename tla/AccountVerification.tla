------------------------- MODULE AccountVerification -------------------------
(***************************************************************************)
(* How the central server gives an account its key (central/src/web/routes *)
(* /auth.rs, state.rs, verifier.rs): the client starts a challenge, sends  *)
(* its answer as a message to an account of the server in the game, and    *)
(* finishes the challenge. challenge_finish releases the state lock and    *)
(* waits for the refresher, which copies the first page of messages into a *)
(* cache once per period, while the deleter removes old ones.              *)
(*                                                                         *)
(* Account id, user id and name are one value here. The answer of a        *)
(* challenge is its number: the code draws 16 random characters. The       *)
(* game's messages (inbox) are external.                                   *)
(*                                                                         *)
(* A definition that ends in _m is a faulty variant of the one it is named *)
(* after; no specification uses it.                                        *)
(***************************************************************************)
EXTENDS Integers, FiniteSets, FiniteSetsExt

CONSTANTS Applicants,    \* accounts, all behind the address they share
          MaxChallenges, \* challenges created
          FlushPeriods,  \* verify_account waits that many (5)
          PageSize,      \* messages on a page of the inbox
          DeleteBatch,   \* messages deleted at once (100)
          MaxMessages,   \* messages sent
          MaxEvents      \* what happens outside or goes wrong, see events

(* No account has one of these names.                                      *)
ASSUME ApplicantsAssumption == Applicants \cap {"none", "chat", "garbled"} = {}
ASSUME FlushPeriodsAssumption == FlushPeriods \in Nat /\ FlushPeriods >= 2
ASSUME PageSizeAssumption == PageSize \in Nat

NoChallenge == [account |-> "none", code |-> 0, expired |-> FALSE]

VARIABLES chal,     \* active_challenges of the address
          codes,    \* challenges created so far
          known,    \* the answer each client has worked out and whether it sent it
          req,      \* the latest finish request of each client; lapsed: its challenge
                    \* expired, or a request whose challenge had lapsed removed it
          inbox,    \* the messages of the server's account; a newer one has a greater id
          sent,     \* every message sent so far
          aged,     \* those whose age is given in hours or more
          cache,    \* message_cache
          outdated, \* outdated_messages
          ref,      \* run_refresher: its stage and the page it got, with what was old
          del,      \* run_deleter: the messages it asked to delete
          api,      \* use_gd_api and is_enabled
          mishaps,  \* "late": a request failed or took long, or an answer grew old;
                    \* "unseen": a full page, a garbled message, verification switched
          events    \* other messages, ageing, expiry, failures and reloads so far

verifyVars == <<chal, codes, known, req, inbox, sent, aged, cache, outdated, ref, del,
                api, mishaps, events>>

(* A client's message with an answer, one about something else ("chat"),   *)
(* or one whose title is no text ("garbled").                              *)
Message(from, code) == [id |-> Cardinality(sent) + 1, from |-> from, code |-> code]

NoPage(st) == [st |-> st, page |-> {}, old |-> {}]

NoAnswer == [code |-> 0, told |-> FALSE]

NoRequest == [st |-> "none", code |-> 0, fresh |-> FALSE, waited |-> 0,
              posted |-> FALSE, lapsed |-> FALSE]

VerifyInit ==
    /\ chal = NoChallenge /\ codes = 0
    /\ known = [a \in Applicants |-> NoAnswer] /\ req = [a \in Applicants |-> NoRequest]
    /\ inbox = {} /\ sent = {} /\ aged = {} /\ cache = {} /\ outdated = {}
    /\ ref = NoPage("idle") /\ del = {}
    /\ api = TRUE /\ mishaps = {} /\ events = 0

Idle(a) == req[a].st \notin {"wait", "decide", "granted"}

---------------------------------------------------------------------------
(* The client and the game *)

Event == events < MaxEvents /\ events' = events + 1

(* Sent once for every challenge the client has asked for.                 *)
Arrives(m) == inbox' = inbox \cup {m} /\ sent' = sent \cup {m}

SendMessage(a) ==
    /\ known[a].code # 0 /\ ~known[a].told /\ Cardinality(sent) < MaxMessages
    /\ Arrives(Message(a, known[a].code))
    /\ known' = [known EXCEPT ![a].told = TRUE]
    /\ UNCHANGED <<chal, codes, req, aged, cache, outdated, ref, del, api, mishaps, events>>

OtherMessage ==
    /\ Event /\ Cardinality(sent) < MaxMessages
    /\ \E kind \in {"chat", "garbled"} : Arrives(Message(kind, 0))
    /\ UNCHANGED <<chal, codes, known, req, aged, cache, outdated, ref, del, api, mishaps>>

GrowOld ==
    \E m \in inbox \ aged :
        /\ Event /\ aged' = aged \cup {m}
        /\ UNCHANGED <<chal, codes, known, req, inbox, sent, cache, outdated, ref, del, api,
                       mishaps>>

---------------------------------------------------------------------------
(* auth.rs *)

(* The request of a, after the challenge it is about went away under it.   *)
Lapsed(a) ==
    IF chal.account = a /\ ~Idle(a) THEN [req[a] EXCEPT !.lapsed = TRUE] ELSE req[a]

(* challenge_expiry seconds have passed.                                   *)
Expire ==
    /\ Event /\ chal # NoChallenge /\ ~chal.expired
    /\ chal' = [chal EXCEPT !.expired = TRUE]
    /\ req' = [a \in Applicants |-> Lapsed(a)]
    /\ UNCHANGED <<codes, known, inbox, sent, aged, cache, outdated, ref, del, api, mishaps>>

MayReplace_m(a) == TRUE
MayReplace(a) == chal = NoChallenge \/ chal.expired

(* The answer of the existing challenge of this account, or a new one; for *)
(* another account only if the existing one has expired.                   *)
challenge_start(a) ==
    /\ Idle(a) /\ known[a] = NoAnswer
    /\ \/ chal.account = a /\ chal' = chal /\ codes' = codes /\ known' = [known EXCEPT ![a] = [code |-> chal.code, told |-> FALSE]]
       \/ /\ chal.account # a /\ MayReplace(a) /\ codes < MaxChallenges
          /\ codes' = codes + 1 /\ known' = [known EXCEPT ![a] = [code |-> codes', told |-> FALSE]]
          /\ chal' = [account |-> a, code |-> codes', expired |-> FALSE]
    /\ req' = [req EXCEPT ![a] = NoRequest]
    /\ UNCHANGED <<inbox, sent, aged, cache, outdated, ref, del, api, mishaps, events>>

challenge_finish(a) ==
    /\ Idle(a) /\ known[a] # NoAnswer
    /\ LET right == chal.account = a /\ chal.code = known[a].code
           mine == {m \in inbox \ aged : m.from = a /\ m.code = known[a].code}
       IN req' = [req EXCEPT ![a] =
              [st |-> IF ~right THEN "turned away" ELSE IF api THEN "wait" ELSE "granted",
               code |-> known[a].code, fresh |-> FALSE, waited |-> 0,
               posted |-> mine # {}, lapsed |-> right /\ chal.expired]]
    /\ known' = [known EXCEPT ![a] = NoAnswer]
    /\ UNCHANGED <<chal, codes, inbox, sent, aged, cache, outdated, ref, del, api, mishaps, events>>

(* verify_account has said yes: the challenge of the address is removed,   *)
(* whoever's it is by now.                                                 *)
ChallengeFinished(a) ==
    /\ req[a].st = "granted"
    /\ chal' = NoChallenge
    /\ req' = [b \in Applicants |-> IF b = a THEN [req[a] EXCEPT !.st = "key"]
                                    ELSE IF req[a].lapsed THEN Lapsed(b) ELSE req[b]]
    /\ UNCHANGED <<codes, known, inbox, sent, aged, cache, outdated, ref, del, api, mishaps, events>>

---------------------------------------------------------------------------
(* verifier.rs *)

HasCode(a) == \E e \in cache : e.code = req[a].code
Found_m(a) == req[a].st = "wait" /\ req[a].fresh
Found(a) == req[a].st = "wait" /\ req[a].fresh /\ HasCode(a)

(* The loop of verify_account ends.                                        *)
StopWaiting(a) ==
    /\ Found(a) \/ (req[a].st = "wait" /\ req[a].waited = FlushPeriods)
    /\ req' = [req EXCEPT ![a].st = "decide"]
    /\ UNCHANGED <<chal, codes, known, inbox, sent, aged, cache, outdated, ref, del, api, mishaps, events>>

(* What it does with the cache, which may have changed since.              *)
Matches(a) == \E e \in cache : e.code = req[a].code /\ e.from = a

Decide(a) ==
    /\ req[a].st = "decide"
    /\ req' = [req EXCEPT ![a].st = IF Matches(a) THEN "granted" ELSE "refused",
                           ![a].fresh = FALSE, ![a].waited = 0]
    /\ UNCHANGED <<chal, codes, known, inbox, sent, aged, cache, outdated, ref, del, api, mishaps, events>>

(* A period has passed. The sleep of verify_account is shorter; a request  *)
(* of the refresher may take longer, and it then skips the missed ticks.   *)
NextPeriod ==
    /\ ref.st # "idle" \/ ~api
    /\ \A a \in Applicants : ~Found(a) /\ req[a].st \notin {"decide", "granted"}
    /\ ref' = IF ref.st = "asked" THEN ref ELSE NoPage("idle")
    /\ \/ ref.st = "asked" /\ Event /\ mishaps' = mishaps \cup {"late"}
       \/ ref.st # "asked" /\ UNCHANGED <<mishaps, events>>
    /\ req' = [a \in Applicants |->
                  IF req[a].st = "wait" /\ req[a].waited < FlushPeriods
                  THEN [req[a] EXCEPT !.waited = @ + 1] ELSE req[a]]
    /\ UNCHANGED <<chal, codes, known, inbox, sent, aged, cache, outdated, del, api>>

(* The newest messages.                                                    *)
FirstPage == {m \in inbox : Cardinality({n \in inbox : n.id > m.id}) < PageSize}

AskForMessages ==
    /\ ref.st = "idle" /\ api
    /\ ref' = [st |-> "asked", page |-> FirstPage, old |-> FirstPage \cap aged]
    /\ mishaps' = IF Cardinality(inbox) > PageSize THEN mishaps \cup {"unseen"} ELSE mishaps
    /\ UNCHANGED <<chal, codes, known, req, inbox, sent, aged, cache, outdated, del, api, events>>

(* The request failed, or "-1" came back: the cache stays.                 *)
RefreshFailed ==
    /\ Event /\ ref.st = "asked"
    /\ ref' = NoPage("done") /\ mishaps' = mishaps \cup {"late"}
    /\ UNCHANGED <<chal, codes, known, req, inbox, sent, aged, cache, outdated, del, api>>

(* The messages before the first that cannot be parsed, from the newest on. *)
Parsed(page) == {m \in page : \A n \in page : n.id >= m.id => n.from # "garbled"}

flush_cache ==
    /\ ref.st = "asked"
    /\ ref' = NoPage("done")
    /\ cache' = {m \in Parsed(ref.page) : m \notin ref.old /\ m.from # "chat"}
    /\ outdated' = outdated \cup (Parsed(ref.page) \cap ref.old)
    /\ req' = [a \in Applicants |->
                  IF req[a].st = "wait" THEN [req[a] EXCEPT !.fresh = TRUE] ELSE req[a]]
    /\ mishaps' = mishaps \cup (IF \E m \in ref.page : m.from = "garbled" THEN {"unseen"} ELSE {})
                          \cup (IF \E m \in ref.old : m.code # 0 THEN {"late"} ELSE {})
    /\ UNCHANGED <<chal, codes, known, inbox, sent, aged, del, api, events>>

(* The whole set is taken, part of it is asked for; if that fails it is    *)
(* forgotten, until the refresher finds the messages again.                *)
Batches(s) == kSubset(Min({Cardinality(s), DeleteBatch}), s)

delete_outdated ==
    /\ del = {} /\ outdated # {} /\ api
    /\ outdated' = {}
    /\ \E b \in Batches(outdated) : del' = b
    /\ UNCHANGED <<chal, codes, known, req, inbox, sent, aged, cache, ref, api, mishaps, events>>

Deleted ==
    /\ del # {}
    /\ inbox' = inbox \ del /\ aged' = aged \ del
    /\ del' = {}
    /\ UNCHANGED <<chal, codes, known, req, sent, cache, outdated, ref, api, mishaps, events>>

DeletionFailed ==
    /\ Event /\ del # {} /\ del' = {}
    /\ UNCHANGED <<chal, codes, known, req, inbox, sent, aged, cache, outdated, ref, api, mishaps>>

---------------------------------------------------------------------------
(* The configuration is reloaded (main.rs).                                *)
reload_in_place ==
    /\ Event /\ api' = ~api /\ mishaps' = mishaps \cup {"unseen"}
    /\ UNCHANGED <<chal, codes, known, req, inbox, sent, aged, cache, outdated, ref, del>>

Refresh == NextPeriod \/ AskForMessages \/ flush_cache
Delete == delete_outdated \/ Deleted
Verify(a) == StopWaiting(a) \/ Decide(a) \/ ChallengeFinished(a)

VerifyNext ==
    \/ Refresh \/ RefreshFailed \/ Delete \/ DeletionFailed
    \/ OtherMessage \/ GrowOld \/ Expire \/ reload_in_place
    \/ \E a \in Applicants :
          challenge_start(a) \/ SendMessage(a) \/ challenge_finish(a) \/ Verify(a)

---------------------------------------------------------------------------
(* Properties *)

\* A client whose message was in the inbox when it finished the challenge is
\* refused only if the game's servers failed or were slow, the first page did
\* not hold the message, a message could not be parsed, the message grew old, or
\* verification was switched: not because of when the refresher, the deleter
\* and the other request ran.
RefusalHasCause ==
    \A a \in Applicants : req[a].st = "refused" /\ req[a].posted => mishaps # {}

\* Finishing a challenge removes the challenge of another account behind the
\* same address only if the own one went away while it was being verified: it
\* expired, or it was removed in turn by a request whose own had gone that way.
OwnChallengeRemoved ==
    [][\A a \in Applicants :
          req[a].st = "granted" /\ req'[a].st = "key" =>
              chal.account \in {a, "none"} \/ req[a].lapsed]_verifyVars

=============================================================================
