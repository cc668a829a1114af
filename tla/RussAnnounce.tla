---------------------------- MODULE RussAnnounce ----------------------------
(***************************************************************************)
(* Announcing a service at an address (russ_announce() of socket.c): the    *)
(* calls a server makes on a socket file that other servers announce on,    *)
(* too, and that clients dial.                                              *)
(*                                                                          *)
(* A server binds one socket at most, so the socket has the server's name.  *)
(* The file is the name of the socket it leads to, and its mode.            *)
(***************************************************************************)
EXTENDS Naturals

CONSTANTS
    Servers,  \* processes that announce
    Old,      \* a server of the past
    Root,     \* servers run as root, for whom the mode of a file is no bar
    NoFile,
    MaxDeaths \* bound: processes that are killed

File(s, mode) == [sock |-> s, mode |-> mode]
Files == [sock : Servers \cup {Old}, mode : {"closed", "open"}]

ASSUME AnnounceAssumption ==
    /\ Old \notin Servers
    /\ NoFile \notin Files
    /\ Root \in BOOLEAN
    /\ MaxDeaths \in Nat

VARIABLES
    file,    \* what is at the address
    apc,     \* apc[s]: how far server s is, and how it ended: "lost" to others or
             \* "failed" by an error
    listens, \* servers whose socket listens
    deaths   \* how many processes were killed, at most MaxDeaths

avars == <<file, apc, listens, deaths>>

\* Nothing at the address, or what a server of the past left there.
AnnounceInit ==
    /\ file \in {NoFile, File(Old, "open")}
    /\ apc = [s \in Servers |-> "none"]
    /\ listens = {}
    /\ deaths = 0

AStep(s, pc) == apc' = [apc EXCEPT ![s] = pc]

\* connect() on the address gets through: somebody listens there.  The mode
\* of the file is a bar for everybody but root.
Allowed == file.mode = "open" \/ Root
Answers == file # NoFile /\ file.sock \in listens

\* The address leads to server s, and any client may dial it.
Reachable(s) == file = File(s, "open") /\ s \in listens

-----------------------------------------------------------------------------

\* bind(): the new file has the mode umask left it.
Bind(s) ==
    /\ apc[s] = "bind"
    /\ \/ /\ file = NoFile
          /\ file' = File(s, "open")
          /\ AStep(s, "chmod0")
       \/ /\ file # NoFile
          /\ AStep(s, "probe")
          /\ UNCHANGED file
    /\ UNCHANGED <<listens, deaths>>

\* ECONNREFUSED.
Refused == ~Answers /\ Allowed

\* The address is in use: connect() finds whether anybody listens.  Only a
\* refused connection tells that nobody does.
Probe(s) ==
    /\ apc[s] = "probe"
    /\ AStep(s, IF file # NoFile /\ Refused THEN "unlink" ELSE "lost")
    /\ UNCHANGED <<file, listens, deaths>>

\* Mutant: the socket is not bound again.
UnlinkOnly(s) ==
    /\ apc[s] = "unlink"
    /\ AStep(s, IF file # NoFile THEN "chmod0" ELSE "lost")
    /\ file' = NoFile
    /\ UNCHANGED <<listens, deaths>>

\* unlink() of whatever is at the address by now.
Unlink(s) ==
    /\ apc[s] = "unlink"
    /\ AStep(s, IF file # NoFile THEN "rebind" ELSE "lost")
    /\ file' = NoFile
    /\ UNCHANGED <<listens, deaths>>

Rebind(s) ==
    /\ apc[s] = "rebind"
    /\ \/ /\ file = NoFile
          /\ file' = File(s, "open")
          /\ AStep(s, "chmod0")
       \/ /\ file # NoFile
          /\ AStep(s, "lost")
          /\ UNCHANGED file
    /\ UNCHANGED <<listens, deaths>>

\* chmod() and chown() act on the file at the address, whoever made it, and set
\* its mode (chown() leaves it as it is); without a file they fail and the
\* socket is closed.
OnFile(s, step, mode, next) ==
    /\ apc[s] = step
    /\ \/ /\ file # NoFile
          /\ file' = File(file.sock, mode)
          /\ AStep(s, next)
          /\ UNCHANGED listens
       \/ /\ file = NoFile
          /\ AStep(s, "lost")
          /\ listens' = listens \ {s}
          /\ UNCHANGED file
    /\ UNCHANGED deaths

\* Mode 0 keeps the address closed until the socket listens.
ChmodZero(s) == OnFile(s, "chmod0", "closed", "chown")
Chown(s) == OnFile(s, "chown", file.mode, "listen")

Listen(s) ==
    /\ apc[s] = "listen"
    /\ listens' = listens \cup {s}
    /\ AStep(s, "chmod")
    /\ UNCHANGED <<file, deaths>>

ChmodMode(s) == OnFile(s, "chmod", "open", "up")

\* Any of the calls but the connect() fails for a reason of its own: the socket is
\* closed, and a file stays as the calls before left it, also at mode 0.
AnnounceFail(s) ==
    /\ apc[s] \in {"bind", "unlink", "rebind", "chmod0", "chown", "listen", "chmod"}
    /\ AStep(s, "failed")
    /\ listens' = listens \ {s}
    /\ UNCHANGED <<file, deaths>>

\* A server is killed, or ends: its socket with it, the file stays.
Die(s) ==
    /\ apc[s] \notin {"none", "lost", "failed", "dead"}
    /\ AStep(s, "dead")
    /\ listens' = listens \ {s}
    /\ deaths < MaxDeaths /\ deaths' = deaths + 1
    /\ UNCHANGED file

Announce(s) ==
    \/ Bind(s) \/ Probe(s) \/ Unlink(s) \/ Rebind(s)
    \/ ChmodZero(s) \/ Chown(s) \/ Listen(s) \/ ChmodMode(s)
=============================================================================
