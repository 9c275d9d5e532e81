------------------------------ MODULE Accounts ------------------------------
(***************************************************************************)
(* Human accounts: accounts/service.py (e-mail challenges, registration,   *)
(* login, recovery, the second factor, human keys), the browser sessions   *)
(* of control/sessions.py, and the handlers of api/routes/human_auth.py    *)
(* that call them.                                                         *)
(*                                                                         *)
(* A request reads its rows in one step and commits in a later one, so     *)
(* another may commit in between; only the challenge's row is locked.  A   *)
(* login or recovery commits before the transaction that makes its session.*)
(* Refusals, rate limits included, and lost processes are GiveUp.          *)
(***************************************************************************)
EXTENDS Naturals, FiniteSets

CONSTANTS
  Addresses,      \* e-mail addresses
  Challenges,     \* HumanEmailChallenge rows that may be made
  Callers,        \* requests in flight at once
  Browsers,       \* HumanSession rows that may be made
  HumanKeys,      \* HumanAccessKey rows that may be made
  Codes,          \* the recovery codes of a confirmed second factor
  MaxWrong,       \* email_challenge_max_attempts
  MaxPasswords,   \* bound on the passwords an account has had
  MaxSecrets,     \* bound on the TOTP secrets made
  MaxSteps,       \* bound on the TOTP time steps
  NoAddress, NoChallenge

ASSUME AccountsAssumption ==
  /\ NoAddress \notin Addresses /\ NoChallenge \notin Challenges
  /\ {MaxWrong, MaxPasswords, MaxSecrets, MaxSteps} \subseteq Nat

VARIABLES
  challenge,  \* HumanEmailChallenge
  misses,     \* wrong codes that were compared with a challenge (auxiliary)
  user,       \* addresses with a HumanUser
  password,   \* HumanPasswordCredential: which password it holds, 0: no row
  mfa,        \* HumanTotpCredential
  browser,    \* HumanSession
  key,        \* HumanAccessKey
  step,       \* the current TOTP time step
  secrets,    \* TOTP secrets generated
  call        \* requests in flight

accountVars == <<challenge, misses, user, password, mfa, browser, key, step, secrets, call>>
identity == <<challenge, misses, user, password>>
rows == <<mfa, browser, key>>
clock == <<step, secrets>>

NoMfa == [made |-> FALSE, secret |-> 0, pending |-> FALSE, enabled |-> FALSE,
          codes |-> {}, last |-> 0, proved |-> 0]
Unborn == [is |-> "absent", of |-> NoAddress]
Unsent == [is |-> "absent", to |-> NoAddress, purpose |-> "none", wrong |-> 0, cooling |-> FALSE]
Resting == [op |-> "none", a |-> NoAddress, c |-> NoChallenge, purpose |-> "none", wrong |-> 0,
            seen |-> NoMfa, new |-> NoMfa, out |-> {}, keys |-> {}]

Purposes == {"none", "register", "recover"}
EmailChallenges ==
  [is : {"absent", "open", "expired", "consumed"}, to : Addresses \cup {NoAddress},
   purpose : Purposes, wrong : Nat, cooling : BOOLEAN]
MfaRows == [made : BOOLEAN, secret : Nat, pending : BOOLEAN, enabled : BOOLEAN,
            codes : SUBSET Codes, last : Nat, proved : Nat]
Tokens == [is : {"absent", "live", "revoked", "expired"}, of : Addresses \cup {NoAddress}]
Calls ==
  [op : {"none", "mail", "judge", "recover", "login", "signin", "store", "disable", "rotate"},
   a : Addresses \cup {NoAddress}, c : Challenges \cup {NoChallenge}, purpose : Purposes,
   wrong : Nat, seen : MfaRows, new : MfaRows, out : SUBSET Browsers, keys : SUBSET HumanKeys]

AccountsTypeOK ==
  /\ challenge \in [Challenges -> EmailChallenges] /\ misses \in [Challenges -> Nat]
  /\ user \in SUBSET Addresses /\ password \in [Addresses -> Nat]
  /\ mfa \in [Addresses -> MfaRows]
  /\ browser \in [Browsers -> Tokens] /\ key \in [HumanKeys -> Tokens]
  /\ step \in Nat /\ secrets \in Nat
  /\ call \in [Callers -> Calls]

AccountsInit ==
  /\ challenge = [c \in Challenges |-> Unsent]
  /\ misses = [c \in Challenges |-> 0]
  /\ user \in SUBSET Addresses
  /\ password = [a \in Addresses |-> 0]
  /\ mfa = [a \in Addresses |-> NoMfa]
  /\ browser = [b \in Browsers |-> Unborn]
  /\ key = [k \in HumanKeys |-> Unborn]
  /\ step = 1 /\ secrets = 0
  /\ call = [p \in Callers |-> Resting]

-----------------------------------------------------------------------------
(* Rows *)

LiveOf(table, a) == {x \in DOMAIN table : table[x] = [is |-> "live", of |-> a]}
Revoked(table, X) == [x \in DOMAIN table |-> IF x \in X THEN [table[x] EXCEPT !.is = "revoked"]
                                                          ELSE table[x]]
Made(table, a) ==
  {[table EXCEPT ![x] = [is |-> "live", of |-> a]] : x \in {y \in DOMAIN table : table[y] = Unborn}}

\* An object that was loaded as seen and changed to new: of the row, only the
\* changed columns are written.
Merged(row, seen, new) ==
  [f \in DOMAIN row |-> IF new[f] # seen[f] THEN new[f] ELSE row[f]]

\* An update needs the row still there, an insert needs it not yet there.
Storable(p) ==
  \/ call[p].new = call[p].seen
  \/ call[p].seen.made = mfa[call[p].a].made

Stored(p) ==
  [mfa EXCEPT ![call[p].a] = Merged(@, call[p].seen, call[p].new)]

Armed(row) == row.made /\ ~ row.pending /\ row.enabled

\* verify_mfa_proof: a recovery code is taken off the list, or a time step after
\* the last used one is recorded.  Without an armed factor nothing is asked.
Proven(row) ==
  IF ~ Armed(row) THEN {row}
  ELSE {[row EXCEPT !.codes = @ \ {x}] : x \in row.codes}
         \cup {[row EXCEPT !.last = t] : t \in {step} \ 0 .. row.last}

\* get_current_human, by a browser session or a human key.
SignedIn(a) == LiveOf(browser, a) # {} \/ LiveOf(key, a) # {}

Start(p, op, a) ==
  call[p] = Resting /\ a \in user
    /\ \E row \in Proven(mfa[a]) :
         call' = [call EXCEPT ![p] = [Resting EXCEPT !.op = op, !.a = a, !.seen = mfa[a], !.new = row]]

Finish(p) == call' = [call EXCEPT ![p] = Resting]

-----------------------------------------------------------------------------
(* E-mail challenges *)

\* create_email_challenge: the cooldown is judged on an unlocked read, the mail
\* goes out before the commit.
AskChallenge(p, a, purpose) ==
  /\ call[p] = Resting
  /\ ~ \E c \in Challenges :
         challenge[c].to = a /\ challenge[c].purpose = purpose /\ challenge[c].cooling
  /\ call' = [call EXCEPT ![p] = [Resting EXCEPT !.op = "mail", !.a = a, !.purpose = purpose]]
  /\ UNCHANGED identity /\ UNCHANGED rows /\ UNCHANGED clock

StoreChallenge(p, c) ==
  /\ call[p].op = "mail" /\ challenge[c] = Unsent
  /\ challenge' = [challenge EXCEPT ![c] = [is |-> "open", to |-> call[p].a, wrong |-> 0,
                                            purpose |-> call[p].purpose, cooling |-> TRUE]]
  /\ Finish(p)
  /\ UNCHANGED <<misses, user, password>> /\ UNCHANGED rows /\ UNCHANGED clock

Cool(c) ==
  /\ challenge[c].cooling
  /\ challenge' = [challenge EXCEPT ![c].cooling = FALSE]
  /\ UNCHANGED <<misses, user, password, call>> /\ UNCHANGED rows /\ UNCHANGED clock

ExpireChallenge(c) ==
  /\ challenge[c].is = "open"
  /\ challenge' = [challenge EXCEPT ![c].is = "expired"]
  /\ UNCHANGED <<misses, user, password, call>> /\ UNCHANGED rows /\ UNCHANGED clock

HoldsChallenge(p, c) == call[p].c = c /\ call[p].op \in {"judge", "recover"}
UnlockedChallenge(c) == TRUE
ChallengeFree(c) == ~ \E p \in Callers : HoldsChallenge(p, c)

\* _verify_challenge, up to the comparison: the row is locked and read.
Present(p, c) ==
  /\ call[p] = Resting
  /\ ChallengeFree(c)
  /\ challenge[c].is = "open" /\ challenge[c].wrong < MaxWrong
  /\ call' = [call EXCEPT ![p] = [Resting EXCEPT !.op = "judge", !.c = c, !.a = challenge[c].to,
                                                 !.purpose = challenge[c].purpose,
                                                 !.wrong = challenge[c].wrong]]
  /\ UNCHANGED identity /\ UNCHANGED rows /\ UNCHANGED clock

WrongCode(p) ==
  /\ call[p].op = "judge"
  /\ challenge' = [challenge EXCEPT ![call[p].c].wrong = call[p].wrong + 1]
  /\ misses' = [misses EXCEPT ![call[p].c] = @ + 1]
  /\ Finish(p)
  /\ UNCHANGED <<user, password>> /\ UNCHANGED rows /\ UNCHANGED clock

Consume(p) == [challenge EXCEPT ![call[p].c].is = "consumed"]

-----------------------------------------------------------------------------
(* Registration, login, recovery: each ends in the transaction of SignIn *)

SignInNext(p) == call' = [call EXCEPT ![p] = [Resting EXCEPT !.op = "signin", !.a = call[p].a]]

\* complete_registration: user, password and challenge in one commit.  The
\* address is taken if the first query or the unique index finds it.
CompleteRegistration(p) ==
  /\ call[p].op = "judge" /\ call[p].purpose = "register"
  /\ call[p].a \notin user
  /\ user' = user \cup {call[p].a}
  /\ password' = [password EXCEPT ![call[p].a] = 1]
  /\ challenge' = Consume(p)
  /\ SignInNext(p)
  /\ UNCHANGED misses /\ UNCHANGED rows /\ UNCHANGED clock

Authenticate(p, a) ==
  /\ password[a] > 0
  /\ Start(p, "login", a)
  /\ UNCHANGED identity /\ UNCHANGED rows /\ UNCHANGED clock

Authenticated(p) ==
  /\ call[p].op = "login" /\ Storable(p)
  /\ mfa' = Stored(p)
  /\ SignInNext(p)
  /\ UNCHANGED <<browser, key>> /\ UNCHANGED identity /\ UNCHANGED clock

\* recover_account, the challenge's row held: what there is to revoke is read ...
RecoverRead(p) ==
  /\ call[p].op = "judge" /\ call[p].purpose = "recover"
  /\ call[p].a \in user
  /\ \E row \in Proven(mfa[call[p].a]) :
       call' = [call EXCEPT ![p].op = "recover", ![p].seen = mfa[call[p].a], ![p].new = row,
                            ![p].out = LiveOf(browser, call[p].a), ![p].keys = LiveOf(key, call[p].a)]
  /\ UNCHANGED identity /\ UNCHANGED rows /\ UNCHANGED clock

\* ... and revoked with the new password and the used challenge.
Recover(p) ==
  /\ call[p].op = "recover" /\ Storable(p)
  /\ password[call[p].a] < MaxPasswords
  /\ password' = [password EXCEPT ![call[p].a] = @ + 1]
  /\ mfa' = Stored(p)
  /\ browser' = Revoked(browser, call[p].out)
  /\ key' = Revoked(key, call[p].keys)
  /\ challenge' = Consume(p)
  /\ SignInNext(p)
  /\ UNCHANGED <<misses, user>> /\ UNCHANGED clock

\* create_human_session
SignIn(p) ==
  /\ call[p].op = "signin"
  /\ browser' \in Made(browser, call[p].a)
  /\ Finish(p)
  /\ UNCHANGED <<mfa, key>> /\ UNCHANGED identity /\ UNCHANGED clock

\* revoke_human_session
SignOut(b) ==
  /\ browser[b].is = "live"
  /\ browser' = Revoked(browser, {b})
  /\ UNCHANGED <<mfa, key, call>> /\ UNCHANGED identity /\ UNCHANGED clock

ExpireBrowser(b) ==
  /\ browser[b].is = "live"
  /\ browser' = [browser EXCEPT ![b].is = "expired"]
  /\ UNCHANGED <<mfa, key, call>> /\ UNCHANGED identity /\ UNCHANGED clock

-----------------------------------------------------------------------------
(* The second factor and the human key, for a signed-in Human *)

\* verify_password_and_mfa, then the row the request will store.
Prove(p, op, a) ==
  /\ SignedIn(a) /\ password[a] > 0
  /\ Start(p, op, a)
  /\ UNCHANGED identity /\ UNCHANGED rows

\* verify_human_reauthentication
Reauthenticate(p, a) == Prove(p, "store", a) /\ UNCHANGED clock

\* begin_totp_setup
BeginSetup(p, a) ==
  /\ SignedIn(a) /\ password[a] > 0
  /\ call[p] = Resting /\ a \in user /\ Proven(mfa[a]) # {} /\ secrets < MaxSecrets
  /\ secrets' = secrets + 1
  /\ call' = [call EXCEPT ![p] = [Resting EXCEPT
       !.op = "store", !.a = a, !.seen = mfa[a],
       !.new = [NoMfa EXCEPT !.made = TRUE, !.secret = secrets + 1, !.pending = TRUE]]]
  /\ UNCHANGED step /\ UNCHANGED identity /\ UNCHANGED rows

\* confirm_totp_setup, with a code of the secret that was loaded
ConfirmSetup(p, a) ==
  /\ SignedIn(a)
  /\ call[p] = Resting /\ mfa[a].pending
  /\ call' = [call EXCEPT ![p] = [Resting EXCEPT
       !.op = "store", !.a = a, !.seen = mfa[a],
       !.new = [mfa[a] EXCEPT !.pending = FALSE, !.enabled = TRUE, !.last = step,
                              !.codes = Codes, !.proved = mfa[a].secret]]]
  /\ UNCHANGED clock /\ UNCHANGED identity /\ UNCHANGED rows

Store(p) ==
  /\ call[p].op = "store" /\ Storable(p)
  /\ mfa' = Stored(p)
  /\ Finish(p)
  /\ UNCHANGED <<browser, key>> /\ UNCHANGED identity /\ UNCHANGED clock

\* disable_totp
BeginDisable(p, a) == mfa[a].made /\ ~ mfa[a].pending /\ Prove(p, "disable", a) /\ UNCHANGED clock

Disable(p) ==
  /\ call[p].op = "disable"
  /\ mfa' = [mfa EXCEPT ![call[p].a] = NoMfa]
  /\ Finish(p)
  /\ UNCHANGED <<browser, key>> /\ UNCHANGED identity /\ UNCHANGED clock

\* rotate_human_key: the keys it will revoke are read with the proof.
BeginRotate(p, a) ==
  /\ SignedIn(a) /\ password[a] > 0
  /\ call[p] = Resting /\ a \in user
  /\ \E row \in Proven(mfa[a]) :
       call' = [call EXCEPT ![p] = [Resting EXCEPT !.op = "rotate", !.a = a, !.seen = mfa[a],
                                                   !.new = row, !.keys = LiveOf(key, a)]]
  /\ UNCHANGED clock /\ UNCHANGED identity /\ UNCHANGED rows

RotateKey(p) ==
  /\ call[p].op = "rotate" /\ Storable(p)
  /\ mfa' = Stored(p)
  /\ key' \in Made(Revoked(key, call[p].keys), call[p].a)
  /\ Finish(p)
  /\ UNCHANGED browser /\ UNCHANGED identity /\ UNCHANGED clock

-----------------------------------------------------------------------------
\* A refusal, a mail that could not be sent, a conflict or a lost process.
GiveUp(p) ==
  /\ call[p] # Resting
  /\ Finish(p)
  /\ UNCHANGED identity /\ UNCHANGED rows /\ UNCHANGED clock

Tick ==
  /\ step < MaxSteps
  /\ step' = step + 1
  /\ UNCHANGED <<secrets, call>> /\ UNCHANGED identity /\ UNCHANGED rows

-----------------------------------------------------------------------------
(* The handlers *)

StartEmailChallenge(p) ==
  \/ \E a \in Addresses, purpose \in {"register", "recover"} : AskChallenge(p, a, purpose)
  \/ \E c \in Challenges : StoreChallenge(p, c)

SubmitCode(p) == (\E c \in Challenges : Present(p, c)) \/ WrongCode(p)
RegisterHuman(p) == CompleteRegistration(p)
LoginHuman(p) == (\E a \in Addresses : Authenticate(p, a)) \/ Authenticated(p)
CompleteAccountRecovery(p) == RecoverRead(p) \/ Recover(p)
TotpSetup(p) == (\E a \in Addresses : BeginSetup(p, a) \/ ConfirmSetup(p, a)) \/ Store(p)
RemoveTotp(p) == (\E a \in Addresses : BeginDisable(p, a)) \/ Disable(p)
RotateLegacyHumanKey(p) == (\E a \in Addresses : BeginRotate(p, a)) \/ RotateKey(p)

AccountsNext ==
  \/ \E p \in Callers :
       \/ StartEmailChallenge(p) \/ SubmitCode(p)
       \/ RegisterHuman(p) \/ LoginHuman(p) \/ CompleteAccountRecovery(p) \/ SignIn(p)
       \/ TotpSetup(p) \/ RemoveTotp(p) \/ RotateLegacyHumanKey(p)
       \/ \E a \in Addresses : Reauthenticate(p, a)
       \/ GiveUp(p)
  \/ \E c \in Challenges : Cool(c) \/ ExpireChallenge(c)
  \/ \E b \in Browsers : SignOut(b) \/ ExpireBrowser(b)
  \/ Tick

AccountsSpec == AccountsInit /\ [][AccountsNext]_accountVars

-----------------------------------------------------------------------------
(* Properties *)

\* Every wrong code that was compared with a challenge is counted in its row,
\* and there are never more of them than the maximum: two requests that present
\* a challenge at once do not share one of its attempts.
AttemptsCounted ==
  \A c \in Challenges : challenge[c].wrong = misses[c] /\ misses[c] <= MaxWrong

\* An account is made, or gets another password, exactly by a step that uses up
\* one challenge sent to its address; a challenge serves once, and a failed
\* registration or recovery leaves it usable.
ChallengeSpentOnce ==
  [][/\ \A a \in Addresses : password'[a] # password[a] =>
          \E c \in Challenges : /\ challenge[c].to = a
                                /\ challenge[c].is # "consumed" /\ challenge'[c].is = "consumed"
     /\ \A c \in Challenges : challenge[c].is # "consumed" /\ challenge'[c].is = "consumed" =>
          password'[challenge[c].to] = password[challenge[c].to] + 1]_accountVars

\* A second factor that is asked for has the secret a code was given for.
\* begin_totp_setup may replace the secret while confirm_totp_setup has the
\* earlier one loaded; the confirmation then enables the later one.
ArmedWasProved == \A a \in Addresses : Armed(mfa[a]) => mfa[a].proved = mfa[a].secret
=============================================================================
