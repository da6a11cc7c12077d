------------------------------ MODULE Keyboard ------------------------------
(***************************************************************************)
(* The keyboard driver (driver/keyboard.c) and the PS/2 controller and the *)
(* keyboard it talks to, which are external: they are modelled from the    *)
(* commands the driver sends, the answers it expects and its two polls.    *)
(*                                                                         *)
(* KeyboardInit runs at its place in kernel_start (module Interrupts) with *)
(* interrupts off, one statement per step, while the controller works and  *)
(* keys are hit.  KeyboardHandler is the handler of kKeyboardVec.          *)
(* MapGet finds nothing in the key map, which is empty, and the byte it    *)
(* yields is not told apart, so input_buf is left out.                     *)
(***************************************************************************)
EXTENDS Interrupts

CONSTANTS
  Keys,      \* the scan codes of the keys
  MaxBytes   \* bound: bytes keys send in a run

kDisablePort1 == 173
kEnablePort1 == 174
kDisablePort2 == 167
kCtrlSelfTest == 170
kTestPort1 == 171
kWCtrlConfig == 96
kResetDevice == 255
kCtrlConfig == 4
kKeyboardAck == 250
TestPassed == 170
TestFailed == 252
Break == 240      \* 0xf0, ahead of the code of a key that is released

ASSUME KeysAssumption ==
    /\ Keys \subseteq (1 .. 131)
    /\ MaxBytes \in Nat

VARIABLES
  attached,     \* there is a keyboard
  inbuf,        \* the controller's input buffer: <<>> or <<[port, byte]>>
  outbuf,       \* its output buffer: <<>> or <<[from, byte]>>
  data,         \* what the data port reads when the output buffer is empty
  wants,        \* the command whose data byte comes next, or 0
  port1,        \* the first port is enabled
  int1,         \* bit 0 of the configuration byte
  sends,        \* what the keyboard has to send
  tested,       \* the keyboard passed its self test after the driver's reset
  line,         \* the statement of KeyboardInit
  key_counter,
  cur,
  hit,          \* bytes keys have sent, for the bound
  stale         \* for the properties: the flush of KeyboardInit took the byte of
                \* a request that is pending, so that there is one more than bytes

controller == <<inbuf, outbuf, data, wants, port1, int1>>
device == <<attached, sends, tested, hit>>
driver == <<line, key_counter, cur>>
keyboard == <<controller, device, driver, stale>>

\* The loader leaves the first port enabled, its interrupt on or off, perhaps
\* with a byte nobody read.
KeyboardStart ==
    /\ attached \in BOOLEAN
    /\ inbuf = <<>>
    /\ \E b \in Keys \cup {0} :
         outbuf = IF b = 0 \/ ~attached THEN <<>> ELSE <<[from |-> "keyboard", byte |-> b]>>
    /\ data = 0
    /\ wants = 0
    /\ port1 = TRUE
    /\ int1 \in BOOLEAN
    /\ sends = <<>>
    /\ tested = FALSE
    /\ line = 1
    /\ key_counter = 0 /\ cur = 0
    /\ hit = 0
    /\ stale = FALSE

-----------------------------------------------------------------------------
(* KeyboardInit.  W writes a byte to a port, R is Read, which polls for a  *)
(* byte, In is a bare inb; the last two return FALSE on another answer     *)
(* than the expected one, if one is.                                       *)

W(port, byte) == [op |-> "write", port |-> port, byte |-> byte]
R(byte) == [op |-> "read", byte |-> byte]
In(byte) == [op |-> "inb", byte |-> byte]
Any == -1

\* A driver that flushes the output buffer before it disables the ports.
StatementsFlushFirst ==
    << In(Any), W("cmd", kDisablePort1), W("cmd", kDisablePort2),
       W("cmd", kWCtrlConfig), W("data", kCtrlConfig),
       W("cmd", kCtrlSelfTest), R(85), W("cmd", kTestPort1), R(0),
       W("cmd", kEnablePort1), W("data", kResetDevice), R(Any), In(TestPassed),
       W("cmd", kWCtrlConfig), W("data", kCtrlConfig + 1) >>

\* A driver that takes the acknowledgement for the result of the self test.
StatementsAckOnly ==
    << W("cmd", kDisablePort1), W("cmd", kDisablePort2), In(Any),
       W("cmd", kWCtrlConfig), W("data", kCtrlConfig),
       W("cmd", kCtrlSelfTest), R(85), W("cmd", kTestPort1), R(0),
       W("cmd", kEnablePort1), W("data", kResetDevice), R(Any), In(Any),
       W("cmd", kWCtrlConfig), W("data", kCtrlConfig + 1) >>

\* A driver that flushes with Read, which waits for a byte that may never come.
StatementsPoll == [StatementsAckOnly EXCEPT ![3] = R(Any), ![13] = In(TestPassed)]

\* A driver that asks for interrupts before its tests, whose answers it polls.
StatementsEarly ==
    [StatementsAckOnly EXCEPT ![5] = W("data", kCtrlConfig + 1), ![13] = In(TestPassed)]

\* A driver that leaves the interrupt bit of the configuration clear.
StatementsSilent ==
    [StatementsAckOnly EXCEPT ![13] = In(TestPassed), ![15] = W("data", kCtrlConfig)]

Statements ==
    << W("cmd", kDisablePort1), W("cmd", kDisablePort2), In(Any),
       W("cmd", kWCtrlConfig), W("data", kCtrlConfig),
       W("cmd", kCtrlSelfTest), R(85), W("cmd", kTestPort1), R(0),
       W("cmd", kEnablePort1), W("data", kResetDevice), R(Any), In(TestPassed),
       W("cmd", kWCtrlConfig), W("data", kCtrlConfig + 1) >>

AtKeyboardInit == boot = kIdtExcNum + 5
Running(op) == AtKeyboardInit /\ line \in DOMAIN Statements /\ Statements[line].op = op

Write ==
    /\ Running("write")
    /\ inbuf = <<>>
    /\ inbuf' = <<[port |-> Statements[line].port, byte |-> Statements[line].byte]>>
    /\ line' = line + 1
    /\ UNCHANGED <<vars, outbuf, data, wants, port1, int1, device, key_counter, cur, stale>>

\* The byte the data port reads.
DataPort == IF outbuf = <<>> THEN data ELSE outbuf[1].byte

\* What a read of the data port leaves.
Drain == outbuf' = <<>> /\ data' = DataPort

\* Read and inb go on to the next statement, or KeyboardInit returns FALSE.
Read ==
    /\ \/ Running("read") /\ outbuf # <<>>
       \/ Running("inb")
    /\ Drain
    /\ IF Statements[line].byte \in {Any, DataPort}
         THEN line' = line + 1 /\ UNCHANGED vars
         ELSE At(5) /\ NoDevice /\ UNCHANGED line
    /\ stale' = IF Statements[line] = In(Any) THEN kKeyboardVec \in irr ELSE stale
    /\ UNCHANGED <<inbuf, wants, port1, int1, device, key_counter, cur>>

\* A KeyboardInit that opens the IRQ before anyone handles it.
InstalledOpen ==
    /\ At(5) /\ line > Len(Statements)
    /\ key_counter' = 0 /\ cur' = 0
    /\ EnableIrq(kKeyboardVec) /\ UNCHANGED <<tables, irr, isr, running>>
    /\ UNCHANGED <<controller, device, line, stale>>

\* The handler is registered and the IRQ opened, and KeyboardInit returns TRUE.
Installed ==
    /\ At(5) /\ line > Len(Statements)
    /\ key_counter' = 0 /\ cur' = 0
    /\ Install(kKeyboardVec, "KeyboardHandler")
    /\ UNCHANGED <<controller, device, line, stale>>

-----------------------------------------------------------------------------
(* The controller and the keyboard.                                        *)

\* The line of IRQ 1 is high while there is a byte and bit 0 of the
\* configuration is set; its edge is the request, and nothing new while one is
\* pending.
Rises == outbuf' # <<>> /\ int1' /\ ~(outbuf # <<>> /\ int1)
Edge ==
    /\ irr' = IF Rises THEN irr \cup {kKeyboardVec} ELSE irr
    /\ stale' = (stale /\ ~(Rises /\ kKeyboardVec \in irr))
    /\ UNCHANGED <<tables, imr, isr, running, boot>>

Answer(b) == outbuf' = <<[from |-> "controller", byte |-> b]>>

\* The controller takes what the driver wrote.  An answer waits until the
\* output buffer is free.
Command ==
    LET b == inbuf[1].byte IN
    /\ inbuf # <<>> /\ inbuf[1].port = "cmd"
    /\ inbuf' = <<>>
    /\ wants' = IF b = kWCtrlConfig THEN b ELSE 0
    /\ port1' = IF b = kDisablePort1 THEN FALSE ELSE IF b = kEnablePort1 THEN TRUE ELSE port1
    /\ IF b \in {kCtrlSelfTest, kTestPort1}
         THEN outbuf = <<>> /\ (Answer(IF b = kTestPort1 THEN 0 ELSE 85) \/ Answer(TestFailed))
         ELSE UNCHANGED outbuf
    /\ UNCHANGED <<data, int1, device, driver>>
    /\ Edge

\* A data byte is the configuration or goes to the keyboard, which knows the
\* one command the driver sends it.
Data ==
    LET b == inbuf[1].byte IN
    /\ inbuf # <<>> /\ inbuf[1].port = "data"
    /\ inbuf' = <<>>
    /\ wants' = 0
    /\ IF wants = kWCtrlConfig
         THEN int1' = (b % 2 = 1) /\ UNCHANGED <<device, outbuf>>
         ELSE /\ IF attached
                   THEN \E test \in {TestPassed, TestFailed} :
                          /\ sends' = <<kKeyboardAck, test>>
                          /\ tested' = (test = TestPassed)
                   ELSE UNCHANGED <<sends, tested>>
              /\ UNCHANGED <<attached, int1, hit, outbuf>>
    /\ Edge
    /\ UNCHANGED <<data, port1, driver>>

\* The keyboard sends a byte.
Send ==
    /\ sends # <<>> /\ port1 /\ outbuf = <<>>
    /\ outbuf' = <<[from |-> "keyboard", byte |-> Head(sends)]>>
    /\ sends' = Tail(sends)
    /\ UNCHANGED <<inbuf, data, wants, port1, int1, attached, tested, hit, driver>>
    /\ Edge

\* A key is pressed (its code) or released (Break and its code).
Press(k) ==
    /\ attached /\ hit < MaxBytes
    /\ sends' = Append(sends, k)
    /\ hit' = hit + 1
    /\ UNCHANGED <<vars, controller, attached, tested, driver, stale>>

Release(k) ==
    /\ attached /\ hit + 1 < MaxBytes
    /\ sends' = sends \o <<Break, k>>
    /\ hit' = hit + 2
    /\ UNCHANGED <<vars, controller, attached, tested, driver, stale>>

-----------------------------------------------------------------------------
\* A handler that stays in the second state after an invalid byte.
KeySwitchStays(input) ==
    CASE key_counter % 3 = 0 -> cur' = cur + 1 /\ key_counter' = key_counter + 1
      [] key_counter % 3 = 1 /\ input # Break -> cur' = cur - 1 /\ UNCHANGED key_counter
      [] OTHER -> UNCHANGED cur /\ key_counter' = 0

\* The switch of KeyboardHandler on key_counter % 3; a break code in the second
\* state falls through to the third.
KeySwitch(input) ==
    CASE key_counter % 3 = 0 -> cur' = cur + 1 /\ key_counter' = key_counter + 1
      [] key_counter % 3 = 1 /\ input # Break -> cur' = cur - 1 /\ key_counter' = key_counter + 1
      [] OTHER -> UNCHANGED cur /\ key_counter' = 0

\* The handler of kKeyboardVec.  It polls before it reads: with interrupts off,
\* only the keyboard can end a poll that finds no byte.
KeyboardHandler ==
    /\ Return(kKeyboardVec)
    /\ outbuf # <<>>
    /\ KeySwitch(DataPort)
    /\ Drain
    /\ UNCHANGED <<inbuf, wants, port1, int1, device, line, stale>>

Controller == Command \/ Data \/ Send
KeyboardInitStep == Write \/ Read \/ Installed
KeyHit == \E k \in Keys : Press(k) \/ Release(k)

-----------------------------------------------------------------------------
\* While the driver waits for the controller's answer to a test, what it finds
\* is that answer, never a byte of a key that was hit: the ports are disabled
\* before the output buffer is flushed.
AnswersFromController ==
    AtKeyboardInit /\ line \in {7, 9} /\ outbuf # <<>> => outbuf[1].from = "controller"

\* The handler is installed only for a keyboard that passed its self test after
\* the reset, whatever was typed while KeyboardInit ran.
InstalledIsTested == intr_handler[kKeyboardVec] = "KeyboardHandler" => tested

\* A request of the keyboard finds the byte that raised it, so that the poll of
\* KeyboardHandler, with interrupts off, does not wait; the one exception is a
\* request pending when KeyboardInit flushed the byte, for which it waits.
RequestHasByte == kKeyboardVec \in irr \cup {running} => outbuf # <<>> \/ stale

\* 'cur', which is unsigned, never moves below the start of input_buf: the state
\* in which KeyboardHandler takes an element back follows one that stored it.
CursorNotBelowStart == cur >= 0 /\ (key_counter = 1 => cur >= 1)

=============================================================================
