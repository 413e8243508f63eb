------------------------------- MODULE AcmeDns -------------------------------
(***************************************************************************)
(* The DNS-01 solver (DnsSolver): the TXT records of one challenge name    *)
(* while rustls-acme runs the authorizations of orders and renewals one    *)
(* after another.                                                          *)
(*                                                                         *)
(* The nine providers fall into four classes: "id" (Cloudflare, Njalla,    *)
(* Porkbun, name.com, Vultr) create a record and delete it by its id,      *)
(* "rrset" (Gandi, GoDaddy) read the values and write them back, "zone"    *)
(* (Namecheap) does so for all records and remembers whether it added one, *)
(* "single" (DuckDNS) has one value.  A request to the API is refused, or  *)
(* done, and its answer may be lost.                                       *)
(***************************************************************************)
EXTENDS Integers, FiniteSets

CONSTANTS
  Values,        \* challenge values; an order that is retried may meet one again
  Foreign,       \* a value that somebody else keeps under the name
  MaxAuthorizations, MaxEdits

ASSUME DnsAssumption == Foreign \notin Values

VARIABLES
  provider,      \* the class of the provider
  txt,           \* the records of the name: [value, id], id 0 if not created by id
  expected,      \* the values that others have put there
  state,         \* what the ACME task does
  value,         \* the value of the authorization in progress
  snapshot,      \* the values it has read
  records,       \* DnsSolver.records: handles [value, id, created]
  handle,        \* the handle being removed
  nextId, edits, \* ids given out and edits by others, for the bounds
  answerLost,    \* an answer was lost, a removal was refused, or the program died
  raced          \* somebody edited the records between a read and the write

dnsVars == <<provider, txt, expected, state, value, snapshot, records, handle, nextId,
             edits, answerLost, raced>>

TxtValues == {r.value : r \in txt}
Plain(values) == {[value |-> v, id |-> 0] : v \in values}
ReadsFirst == provider \in {"rrset", "zone"}

DnsInit ==
  /\ provider \in {"id", "rrset", "zone", "single"}
  /\ expected \in SUBSET (Values \union {Foreign}) /\ txt = Plain(expected)
  /\ state = "idle" /\ value \in Values /\ snapshot = {} /\ records = {} /\ handle = {}
  /\ nextId = 1 /\ edits = 0 /\ answerLost = FALSE /\ raced = FALSE

(* authorize, up to the solver; find_zone may find none. *)
Authorize ==
  /\ state = "idle" /\ nextId <= MaxAuthorizations
  /\ value' \in Values /\ nextId' = nextId + 1
  /\ state' \in {"idle", IF ReadsFirst THEN "read" ELSE "create"}
  /\ UNCHANGED <<provider, txt, expected, snapshot, records, handle, edits, answerLost, raced>>

(* The first request of create or of remove for the providers that read. *)
ReadRecords(from, next, gone) ==
  /\ state = from
  /\ \/ snapshot' = TxtValues /\ state' = next /\ UNCHANGED <<records, answerLost, handle>>
     \/ /\ state' = "idle" /\ handle' = {} /\ answerLost' = (answerLost \/ gone) /\ UNCHANGED snapshot
        /\ records' = records \ handle
  /\ UNCHANGED <<provider, txt, expected, value, nextId, edits, raced>>

(* create keeps a handle once its last request has been answered.          *)
(* Namecheap writes nothing if the value is there already.                 *)
Create ==
  /\ state = "create"
  /\ LET present == provider = "zone" /\ value \in snapshot
         made == [value |-> value, id |-> nextId, created |-> ~present]
         after == CASE provider = "id" -> txt \union {[value |-> value, id |-> nextId]}
                    [] provider = "single" -> Plain({value})
                    [] present -> txt
                    [] OTHER -> Plain(snapshot \union {value}) IN
     \/ /\ txt' = after /\ state' = "propagate" /\ UNCHANGED answerLost
        /\ records' = {r \in records : r.value # value} \union {made}
     \/ ~present /\ txt' = after /\ state' = "idle" /\ answerLost' = TRUE /\ UNCHANGED records
     \/ ~present /\ state' = "idle" /\ UNCHANGED <<txt, answerLost, records>>
  /\ UNCHANGED <<provider, expected, value, snapshot, handle, nextId, edits, raced>>

(* Mutant: Namecheap removes a value that it did not add. *)
RemovalAlways(h) == IF ReadsFirst THEN "readAgain" ELSE "remove"

(* The first step of remove.  Namecheap leaves a value that was there      *)
(* before the solver alone.                                                *)
Removal(h) ==
  IF provider = "zone" /\ ~h.created THEN "idle"
  ELSE IF ReadsFirst THEN "readAgain" ELSE "remove"

(* wait_for_txt: the record is seen, or after two minutes it is removed    *)
(* again, the handle is forgotten and the challenge is given up.           *)
Propagate ==
  /\ state = "propagate"
  /\ \/ state' = "challenge" /\ UNCHANGED <<records, handle>>
     \/ \E h \in records :
          /\ h.value = value /\ state' = Removal(h)
          /\ IF state' = "idle" THEN records' = records \ {h} /\ UNCHANGED handle
             ELSE handle' = {h} /\ UNCHANGED records
  /\ UNCHANGED <<provider, txt, expected, value, snapshot, nextId, edits, answerLost, raced>>

(* authorize asks for the validation and polls for it; however that ends   *)
(* it calls cleanup, which takes the handle before it removes the record.  *)
Cleanup ==
  /\ state = "challenge"
  /\ \E h \in records :
       /\ h.value = value /\ state' = Removal(h) /\ records' = records \ {h}
       /\ handle' = IF state' = "idle" THEN {} ELSE {h}
  /\ UNCHANGED <<provider, txt, expected, value, snapshot, nextId, edits, answerLost, raced>>

(* The last request of remove.  Namecheap writes nothing if the value is   *)
(* gone, Gandi and GoDaddy nothing if the name has no values left.         *)
RemoveRecord ==
  /\ state = "remove"
  /\ \E h \in handle :
       LET absent == \/ provider = "zone" /\ h.value \notin snapshot
                     \/ provider = "rrset" /\ snapshot = {}
           after == CASE absent -> txt
                      [] provider = "id" -> {r \in txt : r.id # h.id}
                      [] provider = "single" -> {}
                      [] OTHER -> Plain(snapshot \ {h.value}) IN
       \/ txt' = after /\ UNCHANGED answerLost
       \/ ~absent /\ txt' \in {txt, after} /\ answerLost' = TRUE
  /\ state' = "idle" /\ handle' = {} /\ records' = records \ handle
  /\ UNCHANGED <<provider, expected, value, snapshot, nextId, edits, raced>>

(* Somebody else adds or deletes the foreign value. *)
OtherEdit ==
  /\ edits < MaxEdits /\ edits' = edits + 1
  /\ IF Foreign \in expected
     THEN expected' = expected \ {Foreign} /\ txt' = {r \in txt : r.value # Foreign}
     ELSE expected' = expected \union {Foreign} /\ txt' = txt \union Plain({Foreign})
  /\ raced' = (raced \/ (ReadsFirst /\ state \in {"create", "remove"}))
  /\ UNCHANGED <<provider, state, value, snapshot, records, handle, nextId, answerLost>>

(* The program stops; the handles are only in memory. *)
Crash ==
  /\ state # "idle" /\ state' = "idle" /\ records' = {} /\ handle' = {} /\ answerLost' = TRUE
  /\ UNCHANGED <<provider, txt, expected, value, snapshot, nextId, edits, raced>>

DnsNext ==
  \/ Authorize \/ ReadRecords("read", "create", FALSE) \/ Create \/ Propagate \/ Cleanup
  \/ ReadRecords("readAgain", "remove", TRUE) \/ RemoveRecord \/ OtherEdit \/ Crash

(* Between authorizations the name has the values others put there and no  *)
(* more, however the authorizations ended ("cleanup never removes a        *)
(* pre-existing value", acme_namecheap.rs:97), unless an answer was lost   *)
(* or somebody else wrote between a read and the write.  DuckDNS has room  *)
(* for one value only, and Gandi and GoDaddy cannot tell a value that was  *)
(* there from their own.                                                   *)
ZoneRestored ==
  state = "idle" /\ ~answerLost /\ ~raced =>
    CASE provider \in {"id", "zone"} -> TxtValues = expected
      [] provider = "rrset" -> TxtValues \ Values = expected \ Values /\ TxtValues \subseteq expected
      [] provider = "single" -> TxtValues \subseteq expected
=============================================================================
