------------------------------ MODULE Namespace ------------------------------
(***************************************************************************)
(* The volume as libs/ntdll/io.c shows it: the look at /etc/mtab before a  *)
(* device is opened, and the object directory, which has the volume as its *)
(* one entry and keeps the position of a scan in a static variable.        *)
(***************************************************************************)

EXTENDS Integers

CONSTANTS NsThreads  \* threads of the guest

VARIABLES
  mounted,   \* the volume is mounted, by whoever shares the machine
  call,      \* how far each thread is with the opening of the volume
  counted,   \* count # 0: the entry has been handed out
  scan,      \* the scan of each thread
  crossed    \* history: two scans met, or one was given up

nsVars == <<mounted, call, counted, scan, crossed>>

NsInit ==
  /\ mounted \in BOOLEAN
  /\ call = [t \in NsThreads |-> [pc |-> "idle", free |-> TRUE]]
  /\ counted = FALSE
  /\ scan = [t \in NsThreads |-> [pc |-> "idle", seen |-> 0]]
  /\ crossed = FALSE

-----------------------------------------------------------------------------
(* unix_open of a Volume{...}: is_mounted, then open.                      *)

\* free: the volume was not mounted for a moment of the call.
OpenVolume(t) ==
  /\ call[t].pc \in {"idle", "opened", "refused"} /\ scan[t].pc \notin {"entry", "end"}
  /\ call' = [call EXCEPT ![t] = [pc |-> "mtab", free |-> ~mounted]]
  /\ UNCHANGED <<mounted, counted, scan, crossed>>

Refuses(found) == found \in {"mounted", "error"}

\* mtab cannot be read, or has no line: MTAB_ERROR.
IsMounted(t) ==
  /\ call[t].pc = "mtab"
  /\ \E found \in {IF mounted THEN "mounted" ELSE "free", "error"} :
       call' = [call EXCEPT ![t].pc = IF Refuses(found) THEN "refused" ELSE "open"]
  /\ UNCHANGED <<mounted, counted, scan, crossed>>

OpenDevice(t) ==
  /\ call[t].pc = "open"
  /\ \E result \in {"opened", "refused"} : call' = [call EXCEPT ![t].pc = result]
  /\ UNCHANGED <<mounted, counted, scan, crossed>>

\* The rest of the machine mounts and unmounts at any time.
Mount ==
  /\ mounted' = ~mounted
  /\ call' = [t \in NsThreads |->
                IF call[t].pc \in {"mtab", "open"} THEN [call[t] EXCEPT !.free = TRUE]
                ELSE call[t]]
  /\ UNCHANGED <<counted, scan, crossed>>

-----------------------------------------------------------------------------
(* NtQueryDirectoryObject.                                                 *)

Scanning(t) == scan[t].pc \notin {"idle", "done"}

\* The call tests count; what it does of it comes after.  A first call begins
\* a scan: RestartScan is not looked at.
LookAtCount(t) ==
  /\ scan[t].pc \in {"idle", "more", "done"} /\ call[t].pc \notin {"mtab", "open"}
  /\ LET begins == ~Scanning(t)
     IN  /\ scan' = [scan EXCEPT ![t] =
                       [pc |-> IF counted THEN "end" ELSE "entry",
                        seen |-> IF begins THEN 0 ELSE scan[t].seen]]
         /\ crossed' = (crossed \/ (begins /\ \E u \in NsThreads \ {t} : Scanning(u)))
  /\ UNCHANGED <<mounted, call, counted>>

\* Faulty variant: the entry is handed out and not counted.
CountAfterNone(t) == counted

CountAfter(t) == TRUE

ReturnEntry(t) ==
  /\ scan[t].pc = "entry" /\ scan[t].seen < 2    \* bound
  /\ counted' = CountAfter(t)
  /\ scan' = [scan EXCEPT ![t] = [pc |-> "more", seen |-> @.seen + 1]]
  /\ UNCHANGED <<mounted, call, crossed>>

NoMoreEntries(t) ==
  /\ scan[t].pc = "end"
  /\ counted' = FALSE
  /\ scan' = [scan EXCEPT ![t].pc = "done"]
  /\ UNCHANGED <<mounted, call, crossed>>

\* The guest has what it looked for and does not ask for the end.
GiveUp(t) ==
  /\ scan[t].pc = "more"
  /\ scan' = [scan EXCEPT ![t].pc = "idle"]
  /\ crossed' = TRUE
  /\ UNCHANGED <<mounted, call, counted>>

NsNext ==
  \/ Mount
  \/ \E t \in NsThreads :
       \/ OpenVolume(t) \/ IsMounted(t) \/ OpenDevice(t)
       \/ LookAtCount(t) \/ ReturnEntry(t) \/ NoMoreEntries(t) \/ GiveUp(t)

NsSpec == NsInit /\ [][NsNext]_nsVars

-----------------------------------------------------------------------------
(* Properties.                                                             *)

\* A volume that is mounted from the beginning of the call to its end is not
\* opened, whatever the threads and the rest of the machine do; one that is
\* mounted between the look at mtab and open is (unix_open, is_mounted).
MountedIsRefused == \A t \in NsThreads : call[t].pc = "opened" => call[t].free

\* As long as scans follow each other and each goes on to its end, every one
\* meets the volume exactly once, though all share count and none resets it
\* when it begins (NtQueryDirectoryObject).
LoneScanIsRight ==
  ~crossed =>
    /\ \A t \in NsThreads : scan[t].pc = "done" => scan[t].seen = 1
    /\ \A t \in NsThreads : scan[t].seen <= 1
    /\ counted => \E t \in NsThreads : Scanning(t)

\* The volume is not opened where it was seen mounted, and a scan of the
\* directory that meets no other finds its one entry once (io.c 97 to 182 and
\* 783 to 825).
VolumeIsFoundOnce == MountedIsRefused /\ LoneScanIsRight

=============================================================================
