----------------------------- MODULE EtSession -----------------------------
(***************************************************************************)
(* et.go and et_process.go: the login is only made to learn the host's key *)
(* and to try the user's, then the et program is run with both, and a      *)
(* goroutine reads what it writes.                                         *)
(***************************************************************************)
EXTENDS Session

VARIABLES
  process,   \* the et program: none, running, dead, reaped
  cached,    \* is it d.process?
  reader,    \* readETProcessOutput: none, reading, data, error (to send), done
  results,   \* the channel of one result: empty, data, error
  pending,   \* is there output from before the greeting?
  key,       \* is the private key in memory?
  tempDir    \* are the key and the known host in the temporary directory?

processVars == <<process, cached>>
readerVars == <<reader, results, pending>>
secretVars == <<key, tempDir>>
etVars == <<processVars, readerVars, secretVars>>

Et == protocol = "et"

\* closeProcess.  That the process cannot be killed, or its directory not be removed, is
\* logged and not more; it is taken not to happen.
CloseProcess == /\ process' = IF cached THEN "reaped" ELSE process
                /\ cached' = FALSE

\* The key is kept when it can be read: the preset's, or the one that was asked for.
EtHandshake ==
  \/ (AskFingerprint \/ AskCredential \/ HearFingerprint \/ HearCredential)
     /\ UNCHANGED etVars
  \/ /\ HandshakeFails
     /\ key' \in (IF At("kex") THEN {key} ELSE BOOLEAN)
     /\ UNCHANGED <<processVars, readerVars, tempDir>>
  \/ /\ LogIn
     /\ key' \in (IF At("login") THEN {TRUE} ELSE BOOLEAN)
     /\ UNCHANGED <<processVars, readerVars, tempDir>>

EtClear ==
  /\ Et /\ At("clear")
  /\ CloseConn
  /\ retry' = FALSE /\ force' = TRUE
  /\ Goto("material")
  /\ UNCHANGED <<wireVars, callVars, cancelled, delivered, alive, etVars>>

\* privateKeyForET, MkdirTemp, writeETSSHMaterial; each can fail.
EtMaterial ==
  /\ Et /\ At("material")
  /\ \/ key /\ tempDir' = TRUE /\ rpc' \in {"start", "report"}
     \/ tempDir' = FALSE /\ Goto("report")
  /\ UNCHANGED <<wireVars, callVars, cancelled, netVars, processVars, readerVars, key>>

\* startETPTY; a context that is done starts nothing.
EtStart ==
  /\ Et /\ At("start")
  /\ \/ ~cancelled /\ process' = "running" /\ Goto("cache")
     \/ process' = "none" /\ Goto("report")
  /\ UNCHANGED <<wireVars, callVars, cancelled, netVars, cached, readerVars, secretVars>>

\* Mutant: the process is not kept for the ticks and for Close.
Forgotten == Et /\ cached' = FALSE
CacheProcess == cached' = TRUE

EtCache ==
  /\ At("cache")
  /\ CacheProcess
  /\ reader' = "reading"
  /\ Goto("startup")
  /\ UNCHANGED <<wireVars, callVars, cancelled, netVars, process, results, pending, secretVars>>

\* et exits, or is killed by its CommandContext.
ProcessDies ==
  /\ process = "running"
  /\ process' = "dead"
  /\ UNCHANGED <<sessionVars, cached, readerVars, secretVars>>

ReadProcess ==
  /\ reader = "reading"
  /\ \/ process # "reaped" /\ reader' = "data"
     \/ process # "running" /\ reader' = "error"
  /\ UNCHANGED <<sessionVars, processVars, results, pending, secretVars>>

\* Mutant: the reader insists on being heard.
Insist == reader = "none"
NobodyListens == cancelled

\* sendETProcessReadResult
SendResult ==
  /\ reader \in {"data", "error"}
  /\ \/ /\ results = "empty"
        /\ results' = reader
        /\ reader' = IF reader = "data" THEN "reading" ELSE "done"
     \/ NobodyListens /\ reader' = "done" /\ UNCHANGED results
  /\ UNCHANGED <<sessionVars, processVars, pending, secretVars>>

StartupResult ==
  /\ At("startup") /\ results # "empty"
  /\ results' = "empty"
  /\ IF results = "error" THEN Goto("report") /\ UNCHANGED pending
                          ELSE pending' = TRUE /\ UNCHANGED rpc
  /\ UNCHANGED <<wireVars, callVars, cancelled, netVars, processVars, reader, secretVars>>

\* et has lived for etProcessStartupGrace: that passes for being connected.
EtGreet ==
  /\ At("startup")
  /\ Tell("connected")
  /\ Goto(IF up THEN "flush" ELSE "cleanup")
  /\ UNCHANGED <<protocol, up, callVars, cancelled, netVars, etVars>>

EtFlush ==
  /\ Et /\ At("flush")
  /\ pending' = FALSE
  /\ IF pending THEN Tell("output") ELSE UNCHANGED said
  /\ Goto(IF up \/ ~pending THEN "stream" ELSE "cleanup")
  /\ UNCHANGED <<protocol, up, callVars, cancelled, netVars, processVars, reader,
                 results, secretVars>>

EtOutput ==
  /\ Et /\ At("stream") /\ results # "empty"
  /\ results' = "empty"
  /\ IF results = "data"
       THEN Tell("output") /\ Goto(IF up THEN "stream" ELSE "cleanup")
       ELSE Goto("cleanup") /\ UNCHANGED said
  /\ UNCHANGED <<protocol, up, callVars, cancelled, netVars, processVars, reader,
                 pending, secretVars>>

\* closeProcess and cleanupETTempDir
EtCleanup ==
  /\ Et /\ At("cleanup")
  /\ CloseProcess
  /\ tempDir' = FALSE
  /\ Goto("signal")
  /\ UNCHANGED <<wireVars, callVars, cancelled, netVars, readerVars, key>>

EtGoroutine == \/ EtClear \/ EtMaterial \/ EtStart \/ EtCache
               \/ StartupResult \/ EtGreet \/ EtFlush \/ EtOutput \/ EtCleanup

Reader == ReadProcess \/ SendResult

---------------------------------------------------------------------------
(* The handler goroutine *)

\* What comes before there is a process is dropped; what cannot be written ends it.
EtInput ==
  /\ Et /\ hpc = "idle"
  /\ IF cached /\ process = "dead"
       THEN \/ hpc' = "failing" /\ CloseProcess
            \/ UNCHANGED <<hpc, processVars>>
       ELSE UNCHANGED <<hpc, processVars>>
  /\ UNCHANGED <<wireVars, answer, processed, cancelled, rpc, netVars, readerVars, secretVars>>

EtClose ==
  /\ Et /\ hpc = "closing"
  /\ hpc' = "waiting"
  /\ CloseProcess
  /\ key' = FALSE
  /\ UNCHANGED <<wireVars, answer, processed, cancelled, rpc, netVars, readerVars, tempDir>>

\* Mutant: only Close forgets the key.
KeptKey == key' = (key /\ Et)
ForgetKey == key' = FALSE

EtRelease ==
  /\ Et /\ CallRelease
  /\ CloseProcess
  /\ ForgetKey
  /\ UNCHANGED <<readerVars, tempDir>>

EtCall == EtInput \/ EtClose \/ EtRelease
============================================================================
