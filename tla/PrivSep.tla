------------------------------- MODULE PrivSep -------------------------------
(***************************************************************************)
(* The privilege-separation channel of lldpd (src/src/daemon/priv-linux.c) *)
(* as a byte stream in each direction between the unprivileged worker and  *)
(* the root monitor.                                                       *)
(*                                                                         *)
(* The worker side of PRIV_OPEN and PRIV_ETHTOOL (priv_open, priv_ethtool) *)
(* and the monitor side of all three commands (asroot_open,                *)
(* asroot_ethtool, asroot_iface_init_os) are in src/.  The monitor loop    *)
(* that reads a command and dispatches it, the caller of                   *)
(* asroot_iface_init_os, the worker stub priv_iface_init and               *)
(* send_fd/receive_fd are not, and are modelled from spec 4.2.             *)
(*                                                                         *)
(* Abstraction of the data: an int is its 4 little-endian bytes; a name or *)
(* path occupies one element of the stream (so its length on the wire is   *)
(* 1), followed by the NUL byte when the sender writes one; the            *)
(* struct ethtool_cmd is one element.  A descriptor travels as ancillary   *)
(* data attached to the first byte of the 4-byte message of send_fd.       *)
(***************************************************************************)
EXTENDS Integers, Sequences, SequencesExt

CONSTANTS
    Paths,          \* paths the worker may ask to open (sequences of segments)
    Ifnames,        \* interface names for ethtool and iface_init
    Dirs,           \* existing directories, as canonical segment sequences
    Files,          \* existing regular files, as canonical segment sequences
    AnyName,        \* the regex atom [^.][^/]* (one path component)
    SocketErrors,   \* iface_init failures the kernel may produce
    EthtoolErrors,  \* ethtool failures the kernel may produce
    SocketBuffer,   \* elements a direction of the socketpair holds
    Junk,           \* the value of 4 bytes that are not all plain bytes
    NoFd

PRIV_OPEN == 1
PRIV_ETHTOOL == 2
PRIV_IFACE_INIT == 3
Commands == {PRIV_OPEN, PRIV_ETHTOOL, PRIV_IFACE_INIT}

FirstFd == 4    \* the descriptor open() returns: asroot_open closes it each time
EMFILE == 24
ENODEV == 19
EPERM == 1

(* asroot_open's allowlist; SYSFS_CLASS_NET is /sys/class/net/ and         *)
(* SYSFS_CLASS_DMI is /sys/class/dmi/id/.                                 *)
Authorized ==
    { <<"proc", "sys", "net", "ipv4", "ip_forward">>,
      <<"proc", "net", "bonding", AnyName>>,
      <<"proc", "self", "net", "bonding", AnyName>>,
      <<"sys", "class", "net", AnyName, "brforward">>,
      <<"sys", "class", "net", AnyName, "brport">>,
      <<"sys", "class", "net", AnyName, "brif", AnyName, "port_no">> }
    \cup { <<"sys", "class", "dmi", "id", f>> :
             f \in {"product_version", "product_serial", "product_name",
                    "bios_version", "sys_vendor", "chassis_asset_tag"} }

VARIABLES
    w2m,        \* bytes written by the worker, not yet read by the monitor
    m2w,        \* bytes written by the monitor, not yet read by the worker
    wpc,        \* worker: "idle", waiting for "status", "fd", "ethc"; "dead"
    wcall,      \* worker: the call in progress [cmd, arg]
    granted,    \* descriptors the worker's calls returned, [call, obj]
    mpc         \* monitor: "wait" for a command, or "dead"

vars == <<w2m, m2w, wpc, wcall, granted, mpc>>

-----------------------------------------------------------------------------
(* Wire encoding.  An element of a stream is a byte [k |-> "b", v |-> n],  *)
(* a name [k |-> "s", v |-> x] or an ethtool_cmd [k |-> "e", v |-> x].     *)

Byte(n) == [k |-> "b", v |-> n]

(* An int as 4 little-endian bytes (\div floors, so -1 gives 255s).       *)
IntBytes(v) == [i \in 1..4 |-> Byte((v \div (256 ^ (i - 1))) % 256)]

(* 4 elements read as a C int (two's complement, little endian); anything *)
(* but 4 plain bytes reads as Junk.                                        *)
Decode(bs) ==
    IF \A i \in 1..4 : bs[i].k = "b"
    THEN LET lo == bs[1].v + 256 * bs[2].v + 65536 * bs[3].v
         IN  IF bs[4].v >= 128 THEN lo + (bs[4].v - 256) * 16777216
                               ELSE lo + bs[4].v * 16777216
    ELSE Junk

Str(x) == <<[k |-> "s", v |-> x]>>      \* the len bytes of a name
NUL == <<Byte(0)>>

(* What the monitor writes: elements with no descriptor attached.          *)
Out(es) == [i \in 1..Len(es) |-> [e |-> es[i], fd |-> NoFd]]

(* send_fd: a 4-byte result of 0 carrying the descriptor.                  *)
SendFd(o) == [Out(IntBytes(0)) EXCEPT ![1].fd = o]

Elems(s) == [i \in 1..Len(s) |-> s[i].e]

-----------------------------------------------------------------------------
(* Path handling                                                           *)

(* regexec without anchors: the pattern matches a run of components.       *)
(* [^.] also matches '/', so AnyName matches an empty component too.       *)
AtomMatches(a, seg) ==
    IF a = AnyName THEN seg = "" \/ seg \notin {".", ".."} ELSE seg = a

Matches(pat, path) ==
    \E off \in 0..(Len(path) - Len(pat)) :
        \A j \in 1..Len(pat) : AtomMatches(pat[j], path[off + j])

(* The kernel's walk of a path: every component but the last must be an    *)
(* existing directory, ".." of / is /, the last must be an existing file.  *)
WalkStep(acc, seg) ==
    CASE ~acc.ok \/ seg \in {"", "."} -> acc
      [] seg = ".." -> [acc EXCEPT !.cwd = IF @ = <<>> THEN <<>> ELSE Front(@)]
      [] OTHER -> [acc EXCEPT !.cwd = Append(@, seg)]

Walk(path) ==
    FoldLeft(LAMBDA acc, k :
                LET nxt == WalkStep(acc, path[k])
                IN  [nxt EXCEPT !.ok = @ /\ (IF k = Len(path) THEN nxt.cwd \in Files
                                                             ELSE nxt.cwd \in Dirs)],
             [cwd |-> <<>>, ok |-> TRUE], [k \in 1..Len(path) |-> k])

-----------------------------------------------------------------------------
(* Worker side                                                             *)

Take4(s) == SubSeq(s, 1, 4)
Drop(s, n) == SubSeq(s, n + 1, Len(s))

(* priv_open and priv_ethtool write len = strlen(name), then len + 1      *)
(* bytes: the name and its NUL.                                            *)
PrivRequest(cmd, name) == IntBytes(cmd) \o IntBytes(1) \o Str(name) \o NUL

(* priv_iface_init (spec 4.2: a length precedes the payload) writes       *)
(* exactly len bytes.                                                      *)
IfaceInitRequest(name) == IntBytes(PRIV_IFACE_INIT) \o IntBytes(1) \o Str(name)

Call(cmd, arg, bytes) ==
    /\ wpc = "idle" /\ mpc = "wait"
    /\ Len(w2m) + Len(bytes) <= SocketBuffer
    /\ wcall' = [cmd |-> cmd, arg |-> arg]
    /\ w2m' = w2m \o bytes
    /\ wpc' = "status"
    /\ UNCHANGED <<m2w, granted, mpc>>

PrivOpen == \E p \in Paths : Call(PRIV_OPEN, p, PrivRequest(PRIV_OPEN, p))

PrivEthtool == \E i \in Ifnames : Call(PRIV_ETHTOOL, i, PrivRequest(PRIV_ETHTOOL, i))

PrivIfaceInit == \E i \in Ifnames : Call(PRIV_IFACE_INIT, i, IfaceInitRequest(i))

(* must_read(&rc): priv_open stops on -1, priv_ethtool and                 *)
(* priv_iface_init on anything but 0.                                      *)
NextAfterStatus(cmd, rc) ==
    CASE cmd = PRIV_OPEN    -> IF rc = -1 THEN "idle" ELSE "fd"
      [] cmd = PRIV_ETHTOOL -> IF rc # 0 THEN "idle" ELSE "ethc"
      [] OTHER              -> IF rc # 0 THEN "idle" ELSE "fd"

ReadStatus ==
    /\ wpc = "status" /\ Len(m2w) >= 4
    /\ wpc' = NextAfterStatus(wcall.cmd, Decode(Elems(Take4(m2w))))
    /\ m2w' = Drop(m2w, 4)
    /\ UNCHANGED <<w2m, wcall, granted, mpc>>

(* receive_fd: reads the 4-byte result with its ancillary data; the       *)
(* descriptor is returned only when the result is 0.                       *)
ReceiveFd ==
    /\ wpc = "fd" /\ Len(m2w) >= 4
    /\ LET msg == Take4(m2w)
           fds == {msg[i].fd : i \in 1..4} \ {NoFd}
       IN  granted' = IF Decode(Elems(msg)) = 0
                      THEN granted \cup {[call |-> wcall, obj |-> o] : o \in fds}
                      ELSE granted
    /\ m2w' = Drop(m2w, 4)
    /\ wpc' = "idle"
    /\ UNCHANGED <<w2m, wcall, mpc>>

(* must_read(ethc, length) after a 0 status.                               *)
ReadEthtool ==
    /\ wpc = "ethc" /\ Len(m2w) >= 1
    /\ m2w' = Drop(m2w, 1)
    /\ wpc' = "idle"
    /\ UNCHANGED <<w2m, wcall, granted, mpc>>

(* must_write to a monitor that has exited fails (EPIPE): fatal.           *)
WorkerEPIPE ==
    /\ wpc = "idle" /\ mpc = "dead"
    /\ wpc' = "dead"
    /\ UNCHANGED <<w2m, m2w, wcall, granted, mpc>>

(* The worker terminates (a signal, or a fatal error elsewhere).           *)
WorkerExit ==
    /\ wpc # "dead"
    /\ wpc' = "dead"
    /\ UNCHANGED <<w2m, m2w, wcall, granted, mpc>>

(* must_read on a channel the monitor has closed is fatal.                 *)
WorkerBlocked == wpc \in {"status", "fd", "ethc"} /\ Len(m2w) < (IF wpc = "ethc" THEN 1 ELSE 4)

WorkerEOF ==
    /\ WorkerBlocked /\ mpc = "dead"
    /\ wpc' = "dead"
    /\ UNCHANGED <<w2m, m2w, wcall, granted, mpc>>

-----------------------------------------------------------------------------
(* Monitor side.  The priv loop reads a command word and runs its handler, *)
(* which reads len, then len bytes of name, and writes its whole answer.   *)

Cmd == Decode(Take4(w2m))
ArgLen == Decode(SubSeq(w2m, 5, 8))
ArgsIn == Len(w2m) >= 8 /\ ArgLen \in Nat /\ Len(w2m) >= 8 + ArgLen
ArgName == w2m[9].v
AfterArgs == Drop(w2m, 8 + ArgLen)

Serve(cmd) ==
    /\ mpc = "wait" /\ Len(w2m) >= 4 /\ Cmd = cmd /\ ArgsIn
    /\ w2m' = AfterArgs

(* must_write blocks until the answer fits in the socket buffer.           *)
Reply(out) ==
    /\ Len(m2w) + Len(out) <= SocketBuffer
    /\ m2w' = m2w \o out

Allowed(file) == \E pat \in Authorized : Matches(pat, file)

(* regexec and the kernel's walk depend only on the path: their outcome    *)
(* for every path the worker may send.                                     *)
Opened == [p \in Paths |-> [auth |-> Allowed(p), walk |-> Walk(p)]]

(* Mutant of asroot_open: open()'s result left unchecked.                  *)
AsrootOpenUnchecked ==
    /\ Serve(PRIV_OPEN)
    /\ LET w == Opened[ArgName].walk
       IN  IF Opened[ArgName].auth
           THEN Reply(Out(IntBytes(FirstFd)) \o SendFd([kind |-> "file", path |-> w.cwd]))
           ELSE Reply(Out(IntBytes(-1)))
    /\ UNCHANGED <<mpc, wpc, wcall, granted>>

(* asroot_open: refuse unless a pattern matches, -1 when open() fails,    *)
(* else the descriptor number, send_fd and close.                          *)
AsrootOpen ==
    /\ Serve(PRIV_OPEN)
    /\ LET w == Opened[ArgName].walk
       IN  IF Opened[ArgName].auth /\ w.ok
           THEN Reply(Out(IntBytes(FirstFd)) \o SendFd([kind |-> "file", path |-> w.cwd]))
           ELSE Reply(Out(IntBytes(-1)))
    /\ UNCHANGED <<mpc, wpc, wcall, granted>>

(* Mutant: the error path of asroot_ethtool returns before must_write.     *)
AsrootEthtoolSilent ==
    /\ Serve(PRIV_ETHTOOL)
    /\ \E e \in EthtoolErrors \cup {"ok"} :
         IF e = "ok" THEN Reply(Out(IntBytes(0) \o <<[k |-> "e", v |-> ArgName]>>))
                     ELSE UNCHANGED m2w
    /\ UNCHANGED <<mpc, wpc, wcall, granted>>

(* asroot_ethtool: -1 when socket() or the ioctl fails, else 0 and the    *)
(* ethtool_cmd.                                                            *)
AsrootEthtool ==
    /\ Serve(PRIV_ETHTOOL)
    /\ \E e \in EthtoolErrors \cup {"ok"} :
         Reply(IF e = "ok" THEN Out(IntBytes(0) \o <<[k |-> "e", v |-> ArgName]>>)
                           ELSE Out(IntBytes(-1)))
    /\ UNCHANGED <<mpc, wpc, wcall, granted>>

(* asroot_iface_init_os returns errno (having already written it itself   *)
(* when socket() fails); its caller writes the returned status and, on 0,  *)
(* sends the descriptor.                                                   *)
IfaceInitErrno == [socket |-> EMFILE, bind |-> ENODEV, filter |-> EPERM, lock |-> EPERM]

AsrootIfaceInit ==
    /\ Serve(PRIV_IFACE_INIT)
    /\ \E e \in SocketErrors \cup {"ok"} :
         Reply(CASE e = "ok" -> Out(IntBytes(0)) \o SendFd([kind |-> "raw", path |-> ArgName])
                   [] e = "socket" -> Out(IntBytes(IfaceInitErrno[e]) \o IntBytes(IfaceInitErrno[e]))
                   [] OTHER -> Out(IntBytes(IfaceInitErrno[e])))
    /\ UNCHANGED <<mpc, wpc, wcall, granted>>

(* The priv loop: "bogus message received" is fatal.                       *)
BogusCommand ==
    /\ mpc = "wait" /\ Len(w2m) >= 4 /\ Cmd \notin Commands
    /\ mpc' = "dead"
    /\ UNCHANGED <<w2m, m2w, wpc, wcall, granted>>

(* Once the worker is gone the monitor's next read sees EOF, or its next   *)
(* must_write fails (EPIPE): it exits.                                     *)
MonitorEOF ==
    /\ mpc = "wait" /\ wpc = "dead"
    /\ mpc' = "dead"
    /\ UNCHANGED <<w2m, m2w, wpc, wcall, granted>>

Init ==
    /\ w2m = <<>> /\ m2w = <<>>
    /\ wpc = "idle" /\ wcall = [cmd |-> PRIV_OPEN, arg |-> CHOOSE p \in Paths : TRUE]
    /\ granted = {}
    /\ mpc = "wait"

Next ==
    \/ PrivOpen \/ PrivEthtool \/ PrivIfaceInit
    \/ ReadStatus \/ ReceiveFd \/ ReadEthtool \/ WorkerEPIPE \/ WorkerEOF \/ WorkerExit
    \/ AsrootOpen \/ AsrootEthtool \/ AsrootIfaceInit \/ BogusCommand \/ MonitorEOF

Spec == Init /\ [][Next]_vars

(* Worker and monitor are separate processes: each keeps running while it *)
(* has something to read.                                                  *)
WorkerStep == ReadStatus \/ ReceiveFd \/ ReadEthtool \/ WorkerEPIPE \/ WorkerEOF
MonitorStep == AsrootOpen \/ AsrootEthtool \/ AsrootIfaceInit \/ BogusCommand \/ MonitorEOF

FairSpec == Spec /\ WF_vars(WorkerStep) /\ WF_vars(MonitorStep)

-----------------------------------------------------------------------------
(* Properties                                                              *)

Elem == [k : {"b"}, v : 0..255] \cup [k : {"s"}, v : Paths \cup Ifnames]
          \cup [k : {"e"}, v : Ifnames]
Call_ == [cmd : Commands, arg : Paths \cup Ifnames]
Obj == [kind : {"file"}, path : Files] \cup [kind : {"raw"}, path : Ifnames]

TypeOK ==
    /\ w2m \in Seq(Elem) /\ Len(w2m) <= SocketBuffer
    /\ m2w \in Seq([e : Elem, fd : Obj \cup {NoFd}])
    /\ Len(m2w) <= SocketBuffer
    /\ wpc \in {"idle", "status", "fd", "ethc", "dead"}
    /\ wcall \in Call_
    /\ granted \subseteq [call : Call_, obj : Obj]
    /\ mpc \in {"wait", "dead"}

(* Every priv_* call returns (or the worker exits): the monitor answers   *)
(* every command it accepts, on every error path.                          *)
CallsReturn == (wpc \in {"status", "fd", "ethc"}) ~> (wpc \in {"idle", "dead"})

(* The descriptor a call returns is the one the monitor created for that  *)
(* call: priv_open(p) gets the file p resolves to, priv_iface_init(i) the *)
(* raw socket of i (spec 4.2: the reply follows its request).              *)
DescriptorMatchesCall ==
    \A g \in granted :
        g.obj = IF g.call.cmd = PRIV_OPEN
                THEN [kind |-> "file", path |-> Walk(g.call.arg).cwd]
                ELSE [kind |-> "raw", path |-> g.call.arg]

(* The worker never obtains a descriptor for a file whose canonical path   *)
(* is not one the allowlist of asroot_open names (spec property 3).        *)
Anchored(pat, path) ==
    Len(pat) = Len(path) /\ \A j \in 1..Len(pat) : AtomMatches(pat[j], path[j])

OnlyAuthorizedFiles ==
    \A g \in granted :
        g.obj.kind = "file" => \E pat \in Authorized : Anchored(pat, g.obj.path)

(* The monitor never reads a command word the worker did not write: it    *)
(* exits only after the worker has (priv_open/priv_ethtool write len + 1  *)
(* bytes, asroot_open/asroot_ethtool read len).                            *)
MonitorOutlivesWorker == mpc = "dead" => wpc = "dead"

=============================================================================
