---------------------------- MODULE PcieSession ----------------------------
(***************************************************************************)
(* How a transcode session is set up: the host program checks the user's   *)
(* options (main of pcie_host_app.c), writes the length of the file and    *)
(* the packed encoder parameters into three registers, transfers the file  *)
(* and clears the registers; the device application, started by hand, reads *)
(* the length and the parameters through the endpoint driver.              *)
(*                                                                         *)
(* A register is the set of its bits that are 1.  The driver is external:   *)
(* its ioctls hand out the registers, the parameters field by field.       *)
(***************************************************************************)
EXTENDS Integers, FiniteSets, FiniteSetsExt

CONSTANTS
  Options,     \* the options a user may give (all of them, or some)
  Values(_),   \* what a user may write after an option
  NoNumber,    \* a string sscanf cannot parse
  FileLengths, \* what lseek may give as the length of an input file: -1 if it fails
  IntBits,     \* width of an int, 32: every documented range fits in 17
  MaxOptions,  \* bound on the options of a command line
  MaxSessions  \* bound on the runs of each program

ASSUME SessionAssumption ==
  /\ Options \subseteq {"cache", "bandwidth", "filler_data", "bitrate", "gop_len", "b_frame",
                      "slice", "qp_mode", "rc_mode", "enc_type", "gop_mode"}
  /\ NoNumber \notin Nat
  /\ \A o \in Options : Values(o) \subseteq Nat \cup {NoNumber}
  /\ FileLengths \subseteq Nat \cup {-1}
  /\ IntBits \in 17 .. 32 /\ MaxOptions \in Nat /\ MaxSessions \in Nat

-----------------------------------------------------------------------------
(* The options. *)

Params == {"cache", "bandwidth", "filler_data", "bitrate", "gop_len", "b_frame",
           "slice", "qp_mode", "rc_mode", "enc_type", "gop_mode"}

\* The ranges as the usage text and the messages state them.
Documented ==
  [cache |-> 0 .. 1, bandwidth |-> 0 .. 1, filler_data |-> 0 .. 1,
   bitrate |-> 1 .. 60000, gop_len |-> 1 .. 1000, b_frame |-> 0 .. 4,
   slice |-> 4 .. 22, qp_mode |-> {0, 2}, rc_mode |-> 1 .. 2,
   enc_type |-> 0 .. 1, gop_mode |-> {0, 3, 4}]

\* Mutant of Accepted: another range that excludes its upper end.
Accepted_Slice == [Documented EXCEPT !.gop_len = 1 .. 999, !.slice = 4 .. 21]

\* The ranges the code accepts.
Accepted == [Documented EXCEPT !.gop_len = 1 .. 999]

Default ==
  [cache |-> 1, bandwidth |-> 0, filler_data |-> 0, bitrate |-> 60000,
   gop_len |-> 60, b_frame |-> 0, slice |-> 8, qp_mode |-> 2, rc_mode |-> 2,
   enc_type |-> 0, gop_mode |-> 0]

\* An unsigned value stored in an int.
AsInt(v) ==
  LET w == v % 2 ^ IntBits
  IN  IF w >= 2 ^ (IntBits - 1) THEN w - 2 ^ IntBits ELSE w

\* A 64-bit value stored in an unsigned int.
AsUnsigned(v) == v % 2 ^ IntBits

\* The values the length register can get; 0 is a cleared one.
Registered == {AsUnsigned(n) : n \in FileLengths} \cup {0}

\* getopt_integer: what is no number leaves the value uninitialised.
GetoptInteger(v, junk) == AsInt(IF v = NoNumber THEN junk ELSE v)

-----------------------------------------------------------------------------
(* The registers. *)

Bits(n)        == {i \in 0 .. IntBits - 2 : (n \div 2 ^ i) % 2 = 1}
Shift(bs, k)   == {i + k : i \in bs} \cap 0 .. 31
Value(bs)      == MapThenSumSet(LAMBDA i : 2 ^ i, bs)
Field(r, k, n) == Value({i - k : i \in r \cap k .. k + n - 1})

\* Where a field starts, and in which of the two registers.
Low == [cache |-> 0, bandwidth |-> 1, filler_data |-> 2, bitrate |-> 4, gop_len |-> 20,
        b_frame |-> 0, slice |-> 3, qp_mode |-> 9, rc_mode |-> 11, enc_type |-> 13,
        gop_mode |-> 15]
In1 == {"cache", "bandwidth", "filler_data", "bitrate", "gop_len"}
In2 == Params \ In1

\* enc_param1 and enc_param2: the values or-ed together.
Pack(p, fields) == UNION {Shift(Bits(p[f]), Low[f]) : f \in fields}

\* The driver's fields: each ends where the next one starts.
Width == [cache |-> 1, bandwidth |-> 1, filler_data |-> 2, bitrate |-> 16, gop_len |-> 12,
          b_frame |-> 3, slice |-> 6, qp_mode |-> 2, rc_mode |-> 2, enc_type |-> 2,
          gop_mode |-> 17]
Unpack(r1, r2) ==
  [f \in Params |-> Field(IF f \in In1 THEN r1 ELSE r2, Low[f], Width[f])]

-----------------------------------------------------------------------------
VARIABLES
  hpc,     \* the host program
  params,  \* its variables cache .. gop_mode
  asked,   \* history: what the user gave for each option last
  given,   \* options of this command line so far
  flen,    \* length of the input file of this session
  regLen, reg1, reg2,  \* the three registers
  dpc,     \* the device application
  length,  \* app->length
  enc,     \* app->enc_param
  noLength,  \* history: the ioctl for the length failed
  early,   \* history: the parameters were read before the host had written them
  hruns, druns         \* runs started so far

host   == <<hpc, params, asked, given, flen, hruns>>
regs   == <<regLen, reg1, reg2>>
device == <<dpc, length, enc, noLength, early, druns>>
sessionVars == <<host, regs, device>>

NoParams == [f \in Params |-> 0]

SessionTypeOK ==
  /\ hpc \in {"off", "options", "length", "params1", "params2", "running", "clear1", "clear2"}
  /\ params \in [Params -> Nat] /\ \A f \in Params : params[f] \in Accepted[f]
  /\ asked \in [Params -> Nat \cup {NoNumber}]
  /\ flen \in FileLengths \cup {0}
  /\ regLen \in Registered
  /\ reg1 \subseteq 0 .. 31 /\ reg2 \subseteq 0 .. 31
  /\ dpc \in {"off", "length", "params", "transcode", "failed"}
  /\ length \in Registered /\ enc \in [Params -> Nat]
  /\ noLength \in BOOLEAN /\ early \in BOOLEAN
  /\ given \in 0 .. MaxOptions /\ hruns \in 0 .. MaxSessions /\ druns \in 0 .. MaxSessions

SessionInit ==
  /\ hpc = "off" /\ params = Default /\ asked = [f \in Params |-> NoNumber] /\ given = 0
  /\ flen = 0 /\ hruns = 0
  /\ regLen = 0 /\ reg1 = {} /\ reg2 = {}
  /\ dpc = "off" /\ length = 0 /\ enc = NoParams
  /\ noLength = FALSE /\ early = FALSE /\ druns = 0

-----------------------------------------------------------------------------
(* The host program. *)

\* A program that has ended leaves nothing behind but the registers.
HostEnds ==
  /\ hpc' = "off" /\ flen' = 0
  /\ params' = Default /\ asked' = [f \in Params |-> NoNumber] /\ given' = 0
DeviceEnds == dpc' = "off" /\ length' = 0 /\ enc' = NoParams /\ noLength' = FALSE /\ early' = FALSE

StartHost ==
  /\ hpc = "off" /\ hruns < MaxSessions
  /\ hpc' = "options" /\ hruns' = hruns + 1
  /\ UNCHANGED <<params, asked, given>>
  /\ \E n \in FileLengths : flen' = n
  /\ UNCHANGED <<regs, device>>

\* One option of the command line: a value out of range becomes the default.
Option(o, v, junk) ==
  /\ hpc = "options" /\ given < MaxOptions
  /\ given' = given + 1
  /\ asked' = [asked EXCEPT ![o] = v]
  /\ LET n == GetoptInteger(v, junk)
     IN  params' = [params EXCEPT ![o] = IF n \in Accepted[o] THEN n ELSE Default[o]]
  /\ UNCHANGED <<hpc, flen, hruns, regs, device>>

\* test_dma: the files and devices are open and the registers mapped.
OptionsRead ==
  /\ hpc = "options"
  /\ hpc' = "length"
  /\ UNCHANGED <<params, asked, given, flen, hruns, regs, device>>

\* The length goes through an unsigned int, so the test for lseek's -1 fails.
WriteLength ==
  /\ hpc = "length"
  /\ regLen' = AsUnsigned(flen)
  /\ hpc' = "params1"
  /\ UNCHANGED <<params, asked, given, flen, hruns, reg1, reg2, device>>

WriteParams1 ==
  /\ hpc = "params1"
  /\ reg1' = Pack(params, In1)
  /\ hpc' = "params2"
  /\ UNCHANGED <<params, asked, given, flen, hruns, regLen, reg2, device>>

WriteParams2 ==
  /\ hpc = "params2"
  /\ reg2' = Pack(params, In2)
  /\ hpc' = "running"
  /\ UNCHANGED <<params, asked, given, flen, hruns, regLen, reg1, device>>

\* Mutant of Joined: the registers keep their values.
Joined_Keep ==
  /\ hpc = "running" /\ flen # -1
  /\ dpc = "transcode"
  /\ DeviceEnds /\ HostEnds
  /\ UNCHANGED <<hruns, regs, druns>>

\* Both transfers are complete (PcieHandshake) and the device application ends;
\* the host joins its threads and clears the registers, the length first.  From
\* a file that has no lseek nothing is ever read.
Joined ==
  /\ hpc = "running" /\ flen # -1
  /\ dpc = "transcode"
  /\ DeviceEnds
  /\ regLen' = 0
  /\ hpc' = "clear1"
  /\ UNCHANGED <<params, asked, given, flen, hruns, reg1, reg2, druns>>

ClearParams1 ==
  /\ hpc = "clear1"
  /\ reg1' = {} /\ hpc' = "clear2"
  /\ UNCHANGED <<params, asked, given, flen, hruns, regLen, reg2, device>>

ClearParams2 ==
  /\ hpc = "clear2"
  /\ reg2' = {} /\ HostEnds
  /\ UNCHANGED <<hruns, regLen, reg1, device>>

-----------------------------------------------------------------------------
(* The device application. *)

StartDevice ==
  /\ dpc \in {"off", "failed"} /\ druns < MaxSessions
  /\ dpc' = "length" /\ druns' = druns + 1
  /\ length' = 0 /\ enc' = NoParams /\ noLength' = FALSE /\ early' = FALSE
  /\ UNCHANGED <<host, regs>>

\* pcie_get_file_length: after a failed ioctl it returns an uninitialised
\* variable.  main gives up on 0.
GetFileLength ==
  /\ dpc = "length"
  /\ \/ length' = regLen /\ UNCHANGED noLength
     \/ noLength' = TRUE /\ \E junk \in Registered : length' = junk
  /\ dpc' = IF length' = 0 THEN "failed" ELSE "params"
  /\ UNCHANGED <<host, regs, enc, early, druns>>

GetEncParams ==
  /\ dpc = "params"
  /\ enc' = Unpack(reg1, reg2)
  /\ early' = (hpc \in {"params1", "params2"})
  /\ dpc' = "transcode"
  /\ UNCHANGED <<host, regs, length, noLength, druns>>

-----------------------------------------------------------------------------
SessionNext ==
  \/ StartHost \/ OptionsRead
  \/ \E o \in Options : \E v \in Values(o) :
       \E junk \in Values(o) \ {NoNumber} : Option(o, v, junk)
  \/ WriteLength \/ WriteParams1 \/ WriteParams2
  \/ Joined \/ ClearParams1 \/ ClearParams2
  \/ StartDevice \/ GetFileLength \/ GetEncParams

SessionSpec == SessionInit /\ [][SessionNext]_sessionVars

-----------------------------------------------------------------------------
\* What the device encodes with is what the host program of this session was
\* given: packed and unpacked without loss, and never a mixture of two sessions.
\* The length is the sign to start and is written first, so the one exception is an
\* application that reads the parameters before the host has written them.  The
\* length the device transcodes is that of this session's file, as far as an
\* unsigned int can say it: of a longer file, or one that has no lseek, what is
\* left of it.
EncodesAsAsked ==
  dpc = "transcode" /\ ~noLength /\ ~early =>
    /\ enc = params
    /\ \/ length = flen
       \/ flen \notin 0 .. 2 ^ IntBits - 1 /\ length = AsUnsigned(flen)

\* An option in its documented range is used, and one outside gives the default;
\* the one exception is a GOP length of 1000, which is documented and refused.
OptionsHonoured ==
  \A f \in Params : asked[f] \in Nat /\ asked[f] < 2 ^ (IntBits - 1) =>
    params[f] = IF asked[f] \in Documented[f] /\ ~(f = "gop_len" /\ asked[f] = 1000)
                THEN asked[f] ELSE Default[f]
=============================================================================
