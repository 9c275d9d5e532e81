------------------------------ MODULE MailWorker ------------------------------
(***************************************************************************)
(* The polling worker of a Connector: ManagedConnector, connect_managed and *)
(* ConnectorWorker of agentpost_sdk/connector.py.  Processes of one profile *)
(* share the credential in the operating system's vault; one of them, the   *)
(* worker, also keeps the inbox cursor file.  The server side is what those *)
(* calls see: the key each Agent's Connector holds, the Agent's inbox and    *)
(* the threads its owner archived.                                         *)
(***************************************************************************)
EXTENDS Naturals, FiniteSets, FiniteSetsExt

CONSTANTS
  MailProcs,      \* processes that use the profile
  MailWorker,     \* the one that runs ConnectorWorker
  MailAgents,     \* Agents of the Human
  MaxMail,        \* messages of an inbox
  MaxKeys,        \* keys the server issues
  MaxMailFaults,  \* crashes
  MaxArchived,    \* messages ever archived
  NoCredential

ASSUME MailAssumption ==
  /\ MailWorker \in MailProcs
  /\ MaxMail \in Nat /\ MaxKeys \in Nat \ {0} /\ MaxMailFaults \in Nat /\ MaxArchived \in Nat
  /\ NoCredential \notin [agent : MailAgents, key : 1..MaxKeys]

VARIABLES
  arrived,    \* agent -> messages in its inbox: 1..arrived
  archived,   \* messages whose thread the owner archived
  status,     \* message -> delivered, read or acked
  serverKey,  \* agent -> the key of its current Connector, 0 for none
  keys,       \* keys issued so far
  vault,      \* the credential of the profile
  cursor,     \* the cursor file: an agent and a position in its inbox
  place,      \* process -> where it is
  cred,       \* process -> the credential it uses
  at,         \* process -> the cursor in memory
  msg,        \* process -> the message in hand, as the page showed it
  handled,    \* messages the handler finished
  hidden,     \* messages that were archived at some time
  mailFaults

mailServer == <<arrived, archived, status, serverKey, keys, hidden>>
mailLocal == <<vault, cursor, place, cred, at, msg, handled>>
mailVars == <<mailServer, mailLocal, mailFaults>>

Credentials == [agent : MailAgents, key : 1..MaxKeys]
Mail == MailAgents \X (1..MaxMail)
Positions == [agent : MailAgents, seq : 0..MaxMail]
NoPosition == [agent |-> NoCredential, seq |-> 0]   \* no file: from the start
NoMail == [seq |-> 0, seen |-> "none"]
Lifecycle == {"delivered", "read", "acked"}
MailPlaces == {"off", "pairing", "storing", "connected", "listing", "reading",
               "handling", "acking", "saving"}

MailTypeOK ==
  /\ arrived \in [MailAgents -> 0..MaxMail]
  /\ archived \subseteq Mail /\ hidden \subseteq Mail /\ handled \subseteq Mail
  /\ status \in [Mail -> Lifecycle]
  /\ serverKey \in [MailAgents -> 0..MaxKeys] /\ keys \in 0..MaxKeys
  /\ vault \in Credentials \cup {NoCredential}
  /\ cursor \in Positions \cup {NoPosition}
  /\ place \in [MailProcs -> MailPlaces]
  /\ cred \in [MailProcs -> Credentials \cup {NoCredential}]
  /\ at \in [MailProcs -> Positions \cup {NoPosition}]
  /\ msg \in [MailProcs -> [seq : 0..MaxMail, seen : Lifecycle \cup {"none"}]]
  /\ mailFaults \in 0..MaxMailFaults

MailInit ==
  /\ arrived = [a \in MailAgents |-> 0]
  /\ archived = {} /\ hidden = {} /\ handled = {}
  /\ status = [m \in Mail |-> "delivered"]
  /\ serverKey = [a \in MailAgents |-> 0] /\ keys = 0
  /\ vault = NoCredential /\ cursor = NoPosition
  /\ place = [p \in MailProcs |-> "off"]
  /\ cred = [p \in MailProcs |-> NoCredential]
  /\ at = [p \in MailProcs |-> NoPosition]
  /\ msg = [p \in MailProcs |-> NoMail]
  /\ mailFaults = 0

-----------------------------------------------------------------------------
(* The server.                                                             *)

MailArrives(a) ==
  /\ arrived[a] < MaxMail
  /\ arrived' = [arrived EXCEPT ![a] = @ + 1]
  /\ UNCHANGED <<archived, status, serverKey, keys, hidden, mailLocal, mailFaults>>

\* The owner archives a thread and restores it: until then its messages are
\* in no page and no call of the Agent finds them.
ToggleArchive(m) ==
  /\ m[2] <= arrived[m[1]]
  /\ archived' = IF m \in archived THEN archived \ {m} ELSE archived \cup {m}
  /\ hidden' = hidden \cup archived' /\ Cardinality(hidden') <= MaxArchived
  /\ UNCHANGED <<arrived, status, serverKey, keys, mailLocal, mailFaults>>

InHand(p) == <<cred[p].agent, msg[p].seq>>
Visible(p) == InHand(p) \notin archived
Authentic(p) == serverKey[cred[p].agent] = cred[p].key

-----------------------------------------------------------------------------
(* Connecting and the vault.                                               *)

Move(p, there) == place' = [place EXCEPT ![p] = there]
EndPass(p) == /\ Move(p, "connected")
              /\ msg' = [msg EXCEPT ![p] = NoMail]
              /\ at' = [at EXCEPT ![p] = NoPosition]
Stop(p) == /\ Move(p, "off")
           /\ msg' = [msg EXCEPT ![p] = NoMail]
           /\ at' = [at EXCEPT ![p] = NoPosition]
           /\ cred' = [cred EXCEPT ![p] = NoCredential]

\* connect_managed: a stored key is tried with a heartbeat; a refused one is
\* paired again for the Agent it belongs to.
ConnectManaged(p) ==
  /\ place[p] = "off"
  /\ cred' = [cred EXCEPT ![p] = vault]
  /\ Move(p, IF vault # NoCredential /\ serverKey[vault.agent] = vault.key
             THEN "connected" ELSE "pairing")
  /\ UNCHANGED <<mailServer, vault, cursor, at, msg, handled, mailFaults>>

\* The Human approves: for the Agent named by the refused key, or for one of
\* the Human's choice.  The new key replaces the one the Agent had.
Pair(p) ==
  /\ place[p] = "pairing" /\ keys < MaxKeys
  /\ \E a \in MailAgents :
       /\ cred[p] # NoCredential => a = cred[p].agent
       /\ serverKey' = [serverKey EXCEPT ![a] = keys + 1]
       /\ cred' = [cred EXCEPT ![p] = [agent |-> a, key |-> keys + 1]]
  /\ keys' = keys + 1
  /\ Move(p, "storing")
  /\ UNCHANGED <<arrived, archived, status, hidden, vault, cursor, at, msg, handled, mailFaults>>

\* rotate_credential, called by another process than the worker.
Rotate(p) ==
  /\ place[p] = "connected" /\ p # MailWorker /\ keys < MaxKeys /\ Authentic(p)
  /\ serverKey' = [serverKey EXCEPT ![cred[p].agent] = keys + 1]
  /\ cred' = [cred EXCEPT ![p].key = keys + 1]
  /\ keys' = keys + 1
  /\ Move(p, "storing")
  /\ UNCHANGED <<arrived, archived, status, hidden, vault, cursor, at, msg, handled, mailFaults>>

StoreCredential(p) ==
  /\ place[p] = "storing"
  /\ vault' = cred[p]
  /\ Move(p, "connected")
  /\ UNCHANGED <<mailServer, cursor, cred, at, msg, handled, mailFaults>>

\* A call of the worker is refused: run_forever forgets the credential.
Forget(p) ==
  /\ place[p] \in {"connected", "listing", "reading", "acking"} /\ p = MailWorker
  /\ ~Authentic(p)
  /\ vault' = NoCredential
  /\ Stop(p)
  /\ UNCHANGED <<mailServer, cursor, handled, mailFaults>>

-----------------------------------------------------------------------------
(* One pass of run_once.                                                   *)

RunOnce(p) ==
  /\ place[p] = "connected" /\ p = MailWorker /\ Authentic(p)
  /\ at' = [at EXCEPT ![p] = cursor]
  /\ Move(p, "listing")
  /\ UNCHANGED <<mailServer, vault, cursor, cred, msg, handled, mailFaults>>

\* The page after the cursor; a cursor of another Agent is refused.
Page(p) ==
  LET a == cred[p].agent IN
  {n \in 1..arrived[a] : n > at[p].seq /\ <<a, n>> \notin archived}

List(p) ==
  /\ place[p] = "listing" /\ Authentic(p)
  /\ IF (at[p] # NoPosition /\ at[p].agent # cred[p].agent) \/ Page(p) = {}
     THEN EndPass(p)
     ELSE LET n == Min(Page(p)) IN
          /\ msg' = [msg EXCEPT ![p] = [seq |-> n, seen |-> status[<<cred[p].agent, n>>]]]
          /\ Move(p, "reading")
          /\ UNCHANGED at
  /\ UNCHANGED <<mailServer, vault, cursor, cred, handled, mailFaults>>

\* Only a message the page showed as delivered is read; it may be gone.
Read(p) ==
  /\ place[p] = "reading"
  /\ IF msg[p].seen # "delivered"
     THEN Move(p, "handling") /\ UNCHANGED <<status, at, msg>>
     ELSE /\ Authentic(p)
          /\ IF Visible(p)
             THEN /\ status' = [status EXCEPT ![InHand(p)] = IF @ = "delivered" THEN "read" ELSE @]
                  /\ msg' = [msg EXCEPT ![p].seen = status'[InHand(p)]]
                  /\ Move(p, "handling") /\ UNCHANGED at
             ELSE EndPass(p) /\ UNCHANGED status
  /\ UNCHANGED <<arrived, archived, serverKey, keys, hidden, vault, cursor, cred, handled, mailFaults>>

\* The exception leaves run_once.
SkipsMessage(p) == Move(p, "saving") /\ UNCHANGED <<at, msg>>
Raises(p) == EndPass(p)

\* The handler finishes or raises; a pass that raised starts again later.
Handle(p) ==
  /\ place[p] = "handling"
  /\ \/ /\ handled' = handled \cup {InHand(p)}
        /\ Move(p, "acking") /\ UNCHANGED <<at, msg>>
     \/ Raises(p) /\ UNCHANGED handled
  /\ UNCHANGED <<mailServer, vault, cursor, cred, mailFaults>>

Ack(p) ==
  /\ place[p] = "acking"
  /\ IF msg[p].seen = "acked"
     THEN Move(p, "saving") /\ UNCHANGED <<status, at, msg>>
     ELSE /\ Authentic(p)
          /\ IF Visible(p)
             THEN /\ status' = [status EXCEPT ![InHand(p)] = "acked"]
                  /\ Move(p, "saving") /\ UNCHANGED <<at, msg>>
             ELSE EndPass(p) /\ UNCHANGED status
  /\ UNCHANGED <<arrived, archived, serverKey, keys, hidden, vault, cursor, cred, handled, mailFaults>>

\* The file is replaced at once; the pass goes on or has reached its limit.
SaveCursor(p) ==
  /\ place[p] = "saving"
  /\ cursor' = [agent |-> cred[p].agent, seq |-> msg[p].seq]
  /\ \/ /\ at' = [at EXCEPT ![p] = cursor']
        /\ msg' = [msg EXCEPT ![p] = NoMail]
        /\ Move(p, "listing")
     \/ EndPass(p)
  /\ UNCHANGED <<mailServer, vault, cred, handled, mailFaults>>

MailCrash(p) ==
  /\ place[p] # "off" /\ mailFaults < MaxMailFaults
  /\ mailFaults' = mailFaults + 1
  /\ Stop(p)
  /\ UNCHANGED <<mailServer, vault, cursor, handled>>

MailStep(p) ==
  \/ ConnectManaged(p) \/ Pair(p) \/ Rotate(p) \/ StoreCredential(p) \/ Forget(p)
  \/ RunOnce(p) \/ List(p) \/ Read(p) \/ Handle(p) \/ Ack(p) \/ SaveCursor(p)

MailNext ==
  \/ \E a \in MailAgents : MailArrives(a)
  \/ \E m \in Mail : ToggleArchive(m)
  \/ \E p \in MailProcs : MailStep(p) \/ MailCrash(p)

MailSpec == MailInit /\ [][MailNext]_mailVars

-----------------------------------------------------------------------------
(* Properties.                                                             *)

\* "worker uses a durable cursor": the cursor never passes a message of its
\* inbox that the handler has not finished, through crashes, lost keys, new
\* keys and other Agents under the same profile; only a message whose thread
\* was archived at the time may be missed.
CursorCoversHandled ==
  cursor # NoPosition =>
    \A n \in 1..cursor.seq :
      LET m == <<cursor.agent, n>> IN m \in handled \cup hidden

\* A message is acknowledged only once the handler finished it, and the page
\* a process works on is never one the cursor file has passed.
MailInv ==
  /\ MailTypeOK
  /\ CursorCoversHandled
  /\ \A m \in Mail : status[m] = "acked" => m \in handled
  /\ \A p \in MailProcs : place[p] \notin {"off", "pairing"} => cred[p] # NoCredential
  /\ \A p \in MailProcs : p # MailWorker =>
       place[p] \in {"off", "pairing", "storing", "connected"}
  /\ LET p == MailWorker IN
     /\ place[p] \in {"listing", "reading", "handling", "acking", "saving"} => at[p] = cursor
     /\ place[p] \in {"reading", "handling", "acking", "saving"} =>
          /\ at[p] # NoPosition => at[p].agent = cred[p].agent
          /\ msg[p].seq \in 1..arrived[cred[p].agent] /\ msg[p].seq > at[p].seq
          /\ \A n \in (at[p].seq + 1)..(msg[p].seq - 1) : <<cred[p].agent, n>> \in hidden
     /\ place[p] \in {"acking", "saving"} => InHand(p) \in handled

\* "rotate replaces the secret inside the vault": nothing but another key
\* takes a key the server accepts out of the vault.
LiveKeyStays ==
  [][vault # NoCredential /\ vault' = NoCredential =>
       serverKey[vault.agent] # vault.key]_mailVars
=============================================================================
