-------------------------------- MODULE Files --------------------------------
(***************************************************************************)
(* The files the programs keep between runs: a geographic database that    *)
(* several servers on one machine download (geo.rs), the ZeroSSL account   *)
(* credentials a server caches (acme.rs), and the certificate and key that *)
(* the cert command writes (cert.rs).  A process may die at any step.      *)
(*                                                                         *)
(* A file is "none", "part" (empty or cut off) or the version it holds.    *)
(***************************************************************************)
EXTENDS Integers, FiniteSets

CONSTANTS
  Processes,
  Versions,      \* complete contents: databases, credentials or key pairs
  MaxRuns        \* how many times processes start

ASSUME FilesAssumption ==
  /\ Processes \cap {"geo", "eab", "cert", "key"} = {}
  /\ Versions \cap {"none", "part"} = {}

(* A process stands for the temporary file that is named after it. *)
Paths == {"geo", "eab", "cert", "key"} \union Processes

VARIABLES
  disk,          \* the contents of every path
  job,           \* what a process works on, and where it is
  fetched,       \* the bytes it has downloaded or generated
  overwrite,     \* the cert command's flag
  torn,          \* a cert command with --overwrite was cut short, and none succeeded since
  found,         \* the databases that were complete when a process loaded them
  runs

fileVars == <<disk, job, fetched, overwrite, torn, found, runs>>

FilesInit ==
  /\ \E old \in Versions \union {"none"} : disk = [p \in Paths |-> IF p = "geo" THEN old ELSE "none"]
  /\ job = [p \in Processes |-> "off"] /\ fetched = [p \in Processes |-> "none"]
  /\ overwrite = [p \in Processes |-> FALSE] /\ torn = FALSE
  /\ found = TRUE /\ runs = 0

Put(p, where) == job' = [job EXCEPT ![p] = where]

(* A server with GeoIP rules or with ZeroSSL, or the cert command.  An     *)
(* operator runs one cert command at a time.                               *)
Launch(p) ==
  /\ job[p] = "off" /\ runs < MaxRuns /\ runs' = runs + 1
  /\ \/ Put(p, "prepare") /\ UNCHANGED overwrite
     \/ Put(p, "eab") /\ UNCHANGED overwrite
     \/ /\ \A q \in Processes : job[q] \notin {"absent", "cert", "key"}
        /\ Put(p, "absent")
        /\ \E flag \in BOOLEAN : overwrite' = [overwrite EXCEPT ![p] = flag]
  /\ UNCHANGED <<disk, fetched, torn, found>>

(* prepare_file: a missing or empty file is stale, and so is an old one.   *)
Prepare(p) ==
  /\ job[p] = "prepare"
  /\ \/ Put(p, "download")
     \/ disk["geo"] # "none" /\ Put(p, "load")
  /\ UNCHANGED <<disk, fetched, overwrite, torn, found, runs>>

(* download: the request fails or the bytes are no database, which matters *)
(* only if there is no older file, or they are written beside the file.    *)
Download(p) ==
  /\ job[p] = "download"
  /\ \/ /\ Put(p, IF disk["geo"] = "none" THEN "off" ELSE "load")
        /\ UNCHANGED fetched
     \/ \E v \in Versions : fetched' = [fetched EXCEPT ![p] = v] /\ Put(p, "create")
  /\ UNCHANGED <<disk, overwrite, torn, found, runs>>

(* Mutant: all processes use one temporary name. *)
TemporaryShared(p) == CHOOSE q \in Processes : TRUE

(* The temporary name has the id of the process. *)
Temporary(p) == p

CreateTemporary(p) ==
  /\ job[p] = "create" /\ disk' = [disk EXCEPT ![Temporary(p)] = "part"] /\ Put(p, "write")
  /\ UNCHANGED <<fetched, overwrite, torn, found, runs>>

WriteTemporary(p) ==
  /\ job[p] = "write" /\ disk' = [disk EXCEPT ![Temporary(p)] = fetched[p]] /\ Put(p, "rename")
  /\ UNCHANGED <<fetched, overwrite, torn, found, runs>>

Rename(p) ==
  /\ job[p] = "rename"
  /\ disk' = [disk EXCEPT !["geo"] = disk[Temporary(p)], ![Temporary(p)] = "none"]
  /\ Put(p, "load")
  /\ UNCHANGED <<fetched, overwrite, torn, found, runs>>

(* load_geoip and load_geosite read what is there now. *)
Load(p) ==
  /\ job[p] = "load"
  /\ found' = (found /\ disk["geo"] \in Versions)
  /\ Put(p, "off")
  /\ UNCHANGED <<disk, fetched, overwrite, torn, runs>>

-----------------------------------------------------------------------------

(* zerossl_eab: a cached file is used or refused, else credentials are     *)
(* requested and written in place.                                         *)
Eab(p) ==
  /\ job[p] = "eab"
  /\ \/ Put(p, "off") /\ UNCHANGED <<disk, fetched>>
     \/ /\ disk["eab"] = "none" /\ Put(p, "cache")
        /\ \E v \in Versions : fetched' = [fetched EXCEPT ![p] = v]
        /\ disk' = [disk EXCEPT !["eab"] = "part"]
  /\ UNCHANGED <<overwrite, torn, found, runs>>

Cache(p) ==
  /\ job[p] = "cache" /\ disk' = [disk EXCEPT !["eab"] = fetched[p]] /\ Put(p, "off")
  /\ UNCHANGED <<fetched, overwrite, torn, found, runs>>

(* generate: unless told to overwrite it refuses a path that is taken. *)
EnsureAbsent(p) ==
  /\ job[p] = "absent"
  /\ IF ~overwrite[p] /\ (disk["cert"] # "none" \/ disk["key"] # "none")
     THEN Put(p, "off") /\ UNCHANGED <<disk, fetched>>
     ELSE /\ \E v \in Versions : fetched' = [fetched EXCEPT ![p] = v]
          /\ disk' = [disk EXCEPT !["cert"] = "part"] /\ Put(p, "cert")
  /\ UNCHANGED <<overwrite, torn, found, runs>>

(* write_output for the certificate and then for the key, whose path may   *)
(* turn out not to be writable.                                            *)
WriteCert(p) ==
  /\ job[p] = "cert"
  /\ \/ /\ disk' = [disk EXCEPT !["cert"] = fetched[p], !["key"] = "part"]
        /\ Put(p, "key") /\ UNCHANGED torn
     \/ /\ disk' = [disk EXCEPT !["cert"] = fetched[p]]
        /\ Put(p, "off") /\ torn' = (torn \/ overwrite[p])
  /\ UNCHANGED <<fetched, overwrite, found, runs>>

WriteKey(p) ==
  /\ job[p] = "key" /\ disk' = [disk EXCEPT !["key"] = fetched[p]]
  /\ Put(p, "off") /\ torn' = FALSE
  /\ UNCHANGED <<fetched, overwrite, found, runs>>

(* The process is killed. *)
Die(p) ==
  /\ job[p] # "off" /\ Put(p, "off")
  /\ torn' = (torn \/ (job[p] \in {"cert", "key"} /\ overwrite[p]))
  /\ UNCHANGED <<disk, fetched, overwrite, found, runs>>

FilesNext ==
  \E p \in Processes :
    \/ Launch(p) \/ Prepare(p) \/ Download(p) \/ CreateTemporary(p) \/ WriteTemporary(p)
    \/ Rename(p) \/ Load(p) \/ Eab(p) \/ Cache(p) \/ EnsureAbsent(p) \/ WriteCert(p)
    \/ WriteKey(p) \/ Die(p)

(* No server ever loads a database that was cut off, whichever servers     *)
(* download it at the same time and wherever they are killed; and only an  *)
(* overwriting cert command that was cut short can leave a key that does   *)
(* not belong to the certificate.                                          *)
FilesComplete ==
  /\ found
  /\ (\A p \in Processes : job[p] \notin {"cert", "key"}) /\ disk["key"] \in Versions =>
       torn \/ disk["cert"] = disk["key"]
=============================================================================
