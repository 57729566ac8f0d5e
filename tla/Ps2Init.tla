------------------------------ MODULE Ps2Init ------------------------------
(* ps2_init of drivers/ps2.c: the controller and its two ports brought up by   *)
(* polling, before any of their interrupts is on.  What the controller does    *)
(* not take or does not answer in time ends the function (TRY), but where the  *)
(* result is not looked at.  How the devices are set up from there on is in    *)
(* Ps2Queue, Ps2Keyboard and Ps2Mouse.                                         *)
EXTENDS Integers, Sequences

CONSTANTS Answers   \* what devices answer to an identify: sequences of bytes

Ports == {1, 2}
Interrupt == <<"int1", "int2">>
Clock == <<"clock1", "clock2">>    \* set, it stops the port
Bits == {"int1", "int2", "clock1", "clock2", "translation"}

VARIABLES
  interrupts,          \* whether the timer interrupts, and with it time goes on
  controller,          \* the configuration of the controller; external
  second,              \* whether it has a second port, and else how its clock reads; external
  pc, i,               \* where ps2_init is, and its loop variable
  config, valid_ports, \* its other variables
  type,                \* of s_devices
  handlers, unmasked   \* ports whose handler is registered, whose interrupt the PIC lets through

locals == <<config, valid_ports, type>>
lines == <<handlers, unmasked>>
ps2Vars == <<controller, second, pc, i, locals, lines>>

\* The firmware may have left the controller in any state; the PIC masks everything.
Init ==
  /\ controller \in SUBSET Bits /\ second \in {"port", "stopped", "running"}
  /\ pc = "disable" /\ i = 1
  /\ config = {} /\ valid_ports = {1} /\ type = [p \in Ports |-> "none"]
  /\ handlers = {} /\ unmasked = {}

Polling == {"second", "test", "enable", "reset", "scanning", "identify", "irq"}

-----------------------------------------------------------------------------
\* A step that runs into a timeout, or finds something wrong: ps2_init returns.
Gives(where) == pc' = where /\ UNCHANGED i
TimesOut ==
  /\ interrupts
  /\ pc \in {"disable", "read config", "write config", "self test", "resend config",
             "test", "enable", "reset", "scanning", "identify", "final config"}
  /\ Gives("done")
  /\ UNCHANGED <<controller, second, locals, lines>>

\* A port that is not there keeps the clock it shows.
Written(bits) ==
  CASE second = "port" -> bits [] second = "stopped" -> bits \cup {"clock2"} [] OTHER -> bits \ {"clock2"}

\* Disable both; then read until nothing comes any more, which only a timeout tells.
Disable ==
  /\ pc = "disable"
  /\ controller' = Written(controller \cup {Clock[i]})
  /\ IF i = 1 THEN i' = 2 /\ UNCHANGED pc ELSE i' = 1 /\ pc' = "flush"
  /\ UNCHANGED <<second, locals, lines>>

Flush ==
  /\ pc = "flush" /\ interrupts /\ Gives("read config")
  /\ UNCHANGED <<controller, second, locals, lines>>

\* The answer may not come: then config is -1, all bits.
ReadConfig ==
  /\ pc = "read config" /\ Gives("write config")
  /\ \E read \in {controller, Bits} : config' = read \ {"int1", "int2", "translation"}
  /\ UNCHANGED <<controller, second, valid_ports, type, lines>>

WriteConfig ==
  /\ pc \in {"write config", "resend config"}
  /\ controller' = Written(config)
  /\ Gives(IF pc = "write config" THEN "self test" ELSE "second")
  /\ UNCHANGED <<second, locals, lines>>

\* The test may reset the configuration, so it is sent again.
NotResent == pc' = "second"                                          \* mutant
Resent == pc' = "resend config"
SelfTest ==
  /\ pc = "self test"
  /\ controller' \in {controller, Written({"int1", "int2", "translation"})}
  /\ Resent /\ UNCHANGED i
  /\ UNCHANGED <<second, locals, lines>>

\* Is there a second port?  Neither the commands nor the answer are waited for with TRY: a
\* command that was not taken leaves the controller as it is, no answer means no port.
Second ==
  /\ pc = "second" /\ Gives("test")
  /\ IF "clock2" \notin config THEN UNCHANGED <<controller, valid_ports>>
     ELSE \E enabled \in {controller, Written(controller \ {"clock2"})} :
       \/ controller' = enabled /\ UNCHANGED valid_ports
       \/ /\ "clock2" \notin enabled
          /\ controller' \in {enabled, Written(enabled \cup {"clock2"})}
          /\ valid_ports' = {1, 2}
  /\ UNCHANGED <<second, config, type, lines>>

\* The loops over the valid ports.
Last == 2
Loop(again, next) == IF i < Last THEN i' = i + 1 /\ pc' = again ELSE i' = 1 /\ pc' = next

TestPort ==
  /\ pc = "test" /\ valid_ports # {}
  /\ valid_ports' \in {valid_ports, valid_ports \ {i}}
  /\ Loop("test", "enable")
  /\ UNCHANGED <<controller, second, config, type, lines>>
NoPorts ==
  /\ pc \in {"test", "enable"} /\ valid_ports = {}
  /\ Gives("done")
  /\ UNCHANGED <<controller, second, locals, lines>>

Enable ==
  /\ pc = "enable" /\ i \in valid_ports
  /\ controller' = Written(controller \ {Clock[i]})
  /\ Gives("reset")
  /\ UNCHANGED <<second, locals, lines>>
Skip ==
  /\ pc = "enable" /\ i \notin valid_ports /\ valid_ports # {}
  /\ Loop("enable", "irq")
  /\ UNCHANGED <<controller, second, locals, lines>>

\* ps2_device_send_byte_and_wait_ack: sent again until it is acknowledged, whatever else the
\* device says.
Acknowledged ==
  /\ pc \in {"reset", "scanning"}
  /\ Gives(IF pc = "reset" THEN "scanning" ELSE "identify")
  /\ UNCHANGED <<controller, second, locals, lines>>

\* The device says what it is, in up to two bytes, and is set up (Ps2Mouse, Ps2Keyboard), or
\* is none that is known.
Identified(answer) ==
  CASE answer = <<0>> -> "mouse" [] answer = <<171, 131>> -> "keyboard" [] OTHER -> "none"
Identify ==
  /\ pc = "identify"
  /\ \E answer \in Answers : type' = [type EXCEPT ![i] = Identified(answer)]
  /\ Loop("enable", "irq")
  /\ UNCHANGED <<controller, second, config, valid_ports, lines>>

\* The handlers of the devices that are known, and only then their interrupts.
Known == {p \in Ports : type[p] # "none"}
EnableInterrupts ==
  /\ pc = "irq" /\ Gives("final config")
  /\ handlers' = Known /\ unmasked' = Known
  /\ config' = config \cup {Interrupt[p] : p \in Known}
  /\ UNCHANGED <<controller, second, valid_ports, type>>
\* The clocks the disable commands stopped are in config, and stop again, until the first
\* byte of the command queue is sent to the port.
FinalConfig ==
  /\ pc = "final config" /\ Gives("done")
  /\ controller' = Written(config)
  /\ UNCHANGED <<second, locals, lines>>

Next ==
  \/ TimesOut \/ Disable \/ Flush \/ ReadConfig \/ WriteConfig \/ SelfTest \/ Second
  \/ TestPort \/ NoPorts \/ Enable \/ Skip \/ Acknowledged \/ Identify
  \/ EnableInterrupts \/ FinalConfig

-----------------------------------------------------------------------------
(* Properties *)

\* From the self test on nothing interrupts for a byte that is polled for; and whenever a
\* port interrupts, for a known device, its handler is there.
PortsReady ==
  /\ pc \in Polling => controller \cap {"int1", "int2"} = {}
  /\ \A p \in unmasked : Interrupt[p] \in controller => p \in handlers /\ type[p] # "none"
=============================================================================
