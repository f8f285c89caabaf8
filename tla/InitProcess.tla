----------------------------- MODULE InitProcess -----------------------------
(***************************************************************************)
(* program_main of src/userland/init/init.cpp, from reading the kernel     *)
(* command line to mounting the config and tmp filesystems: parse_cmdline *)
(* fills configfs_spec from the "cosix.config" word, the block devices are *)
(* partitioned, init polls the blockdevstore until the configured device   *)
(* is listed (giving up after wait_times sleeps), then starts a filesystem *)
(* driver for it and one for a tmpfs.  What follows (switchboard, networkd *)
(* and the shells) only spawns programs and is left out.                   *)
(*                                                                         *)
(* Strings are sequences of characters.  The character "K" stands for the  *)
(* whole key "cosix.config", so that a key compares equal to it exactly    *)
(* when the code's std::string comparison does; every other character      *)
(* stands for itself.  The outcome of each I/O call (openat, LIST, FD,     *)
(* program_spawn) is a nondeterministic choice.                            *)
(***************************************************************************)
EXTENDS Naturals, Sequences, SequencesExt

CONSTANTS
  Cmdlines,   \* what read_cmdline may return
  Devices,    \* block device names the blockdevstore may come to list
  WaitTimes   \* bound: wait_times's initial value (10 in the code)

VARIABLES
  pc,         \* where program_main is
  cmdline,    \* the command line read_cmdline returned
  config,     \* configfs_spec: [filesystem, blockdev, deviceid]
  lastId,     \* last_deviceid
  listed,     \* the block devices the blockdevstore lists
  waitTimes,  \* wait_times of the wait loop
  configfs,   \* the pseudo FD of the config filesystem, or -1
  tmpfs,      \* the pseudo FD of the tmpfs, or -1
  drivers     \* the filesystem drivers started: [deviceid, blockdev]

vars == <<pc, cmdline, config, lastId, listed, waitTimes, configfs, tmpfs, drivers>>

NoFd == -1
Pseudo == "pseudo"      \* the pseudo FD mount_filesystem returns
Null == "null"          \* argdata_null, passed when there is no block device

\* The std::string "cosix.config".
Key == <<"K">>

-----------------------------------------------------------------------------
(* parse_cmdline                                                           *)

\* parse_cmdlinefs: "fs@dev" or "dev"; each call takes the next device id.
ParseCmdlinefs(value, last) ==
  LET at == SelectInSeq(value, LAMBDA ch : ch = "@")
  IN [filesystem |-> IF at = 0 THEN <<>> ELSE SubSeq(value, 1, at - 1),
      blockdev |-> IF at = 0 THEN value ELSE SubSeq(value, at + 1, Len(value)),
      deviceid |-> last + 1]

\* parse_cmdline_key, on the parser state p: only "cosix.config" is used.
ParseKey(p) ==
  IF p.key = Key
  THEN [p EXCEPT !.spec = ParseCmdlinefs(p.value, p.last), !.last = @ + 1]
  ELSE p

\* One iteration of parse_cmdline's loop; "end" is i == cmdline.size().
ParseChar(p, ch) ==
  IF ch \in {" ", "end"}
  THEN IF p.key # <<>>
       THEN [ParseKey(p) EXCEPT !.key = <<>>, !.value = <<>>, !.inKey = TRUE]
       ELSE p
  ELSE IF p.inKey /\ ch = "=" THEN [p EXCEPT !.inKey = FALSE]
  ELSE IF p.inKey THEN [p EXCEPT !.key = Append(@, ch)]
  ELSE [p EXCEPT !.value = Append(@, ch)]

\* parse_cmdline(c), from configfs_spec = spec and last_deviceid = last.
ParseCmdline(c, spec, last) ==
  FoldLeft(ParseChar,
           [key |-> <<>>, value |-> <<>>, inKey |-> TRUE, spec |-> spec, last |-> last],
           c \o <<"end">>)

-----------------------------------------------------------------------------
(* program_main                                                            *)

\* read_cmdline, then parse_cmdline.  A failed open or read gives "".
Start(c) ==
  LET r == ParseCmdline(c, config, lastId)
  IN /\ pc = "start"
     /\ cmdline' = c
     /\ config' = r.spec
     /\ lastId' = r.last
     /\ pc' = "partition"
     /\ UNCHANGED <<listed, waitTimes, configfs, tmpfs, drivers>>

\* all_block_devices() and create_partitions_on_block_device for each: a
\* failed LIST, a missing partition tool or a failed COPY exits init.
Partition ==
  /\ pc = "partition"
  /\ pc' \in {"wait", "exited"}
  /\ UNCHANGED <<cmdline, config, lastId, listed, waitTimes, configfs, tmpfs, drivers>>

\* The partition tool, and drivers it makes the blockdevstore probe, add a
\* block device; this happens while init goes on.
DeviceAppears(d) ==
  /\ d \notin listed
  /\ listed' = listed \cup {d}
  /\ UNCHANGED <<pc, cmdline, config, lastId, waitTimes, configfs, tmpfs, drivers>>

\* One pass of the wait loop: list the devices; if the configured one is
\* there, mount; else give up when wait_times-- was 0, or sleep.
WaitStep ==
  /\ pc = "wait"
  /\ \/ pc' = "exited" /\ UNCHANGED waitTimes              \* LIST failed
     \/ IF config.blockdev \in listed
        THEN pc' = "mount_config" /\ UNCHANGED waitTimes
        ELSE IF waitTimes = 0
        THEN pc' = "exited" /\ UNCHANGED waitTimes
        ELSE pc' = "wait" /\ waitTimes' = waitTimes - 1
  /\ UNCHANGED <<cmdline, config, lastId, listed, configfs, tmpfs, drivers>>

\* get_blockdev: the FD of the named device, or -1 when the blockdevstore
\* refuses; mount_filesystem goes on without one.
BlockdevArgs(spec) == IF spec.blockdev = <<>> THEN {Null} ELSE {spec.blockdev, Null}

\* mount_filesystem(spec): -1 if the driver binary cannot be opened or
\* spawned, else the pseudo FD, with a driver started for the device.
MountOutcomes(spec) ==
  {[fd |-> NoFd, driver |-> <<>>]} \cup
  {[fd |-> Pseudo, driver |-> <<[deviceid |-> spec.deviceid, blockdev |-> b]>>] :
     b \in BlockdevArgs(spec)}

MountConfig ==
  /\ pc = "mount_config"
  /\ \E o \in MountOutcomes(config) :
       /\ configfs' = o.fd
       /\ drivers' = drivers \o o.driver
  /\ pc' = "mount_tmp"
  /\ UNCHANGED <<cmdline, config, lastId, listed, waitTimes, tmpfs>>

\* The tmpfs: no block device, the next device id.
MountTmp ==
  LET spec == [filesystem |-> <<"t">>, blockdev |-> <<>>, deviceid |-> lastId + 1]
  IN /\ pc = "mount_tmp"
     /\ lastId' = lastId + 1
     /\ \E o \in MountOutcomes(spec) :
          /\ tmpfs' = o.fd
          /\ drivers' = drivers \o o.driver
     /\ pc' = "running"
     /\ UNCHANGED <<cmdline, config, listed, waitTimes, configfs>>

\* The globals before program_main: configfs_spec and last_deviceid are
\* zero-initialised, configfs and tmpfs are -1; the blockdevstore lists
\* whatever devices it has found.
Init ==
  /\ pc = "start"
  /\ cmdline = <<>>
  /\ config = [filesystem |-> <<>>, blockdev |-> <<>>, deviceid |-> 0]
  /\ lastId = 0
  /\ listed \in SUBSET Devices
  /\ waitTimes = WaitTimes
  /\ configfs = NoFd
  /\ tmpfs = NoFd
  /\ drivers = <<>>

Next ==
  \/ \E c \in Cmdlines : Start(c)
  \/ Partition
  \/ \E d \in Devices : DeviceAppears(d)
  \/ WaitStep
  \/ MountConfig
  \/ MountTmp

Spec == Init /\ [][Next]_vars

-----------------------------------------------------------------------------
(* Properties                                                              *)

\* The command line as the comment in parse_cmdline's loop reads it: words
\* separated by spaces, each "foo=bar" or "foo", split at its first "=".
WordStarts(c) == {i \in 1..Len(c) : c[i] # " " /\ (i = 1 \/ c[i - 1] = " ")}
WordAt(c, i) ==
  LET e == SelectInSubSeq(c, i, Len(c), LAMBDA ch : ch = " ")
  IN SubSeq(c, i, IF e = 0 THEN Len(c) ELSE e - 1)
KeyOf(w) ==
  LET e == SelectInSeq(w, LAMBDA ch : ch = "=")
  IN IF e = 0 THEN w ELSE SubSeq(w, 1, e - 1)
ValueOf(w) ==
  LET e == SelectInSeq(w, LAMBDA ch : ch = "=")
  IN IF e = 0 THEN <<>> ELSE SubSeq(w, e + 1, Len(w))
\* configfs_spec that reading: the last "cosix.config" word, whose device
\* id counts all such words.
ReferenceConfig(c) ==
  LET ks == {i \in WordStarts(c) : KeyOf(WordAt(c, i)) = Key}
  IN IF ks = {} THEN [filesystem |-> <<>>, blockdev |-> <<>>, deviceid |-> 0]
     ELSE ParseCmdlinefs(ValueOf(WordAt(c, Max(ks))), Cardinality(ks) - 1)

\* When init mounts the config filesystem, it mounts the filesystem and
\* the block device that the last "cosix.config" word of the command line
\* names: parse_cmdline splits the line into words, each "foo=bar" or
\* "foo", as its comment says.
MountsNamedConfig ==
  pc = "mount_config" =>
    /\ config.blockdev = ReferenceConfig(cmdline).blockdev
    /\ config.filesystem = ReferenceConfig(cmdline).filesystem
=============================================================================
