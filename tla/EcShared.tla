---- MODULE EcShared ----
\* The EC ports shared with the beeper driver.  superio_write_byte of
\* ug_sataio_beeper.c takes no region and does not look at the input buffer: it sends
\* its bytes with a fixed delay after each and reads the register back until it holds
\* the value it wrote.
EXTENDS EcBus

CONSTANTS
    Beepers,  \* threads inside superio_write_byte: proc write, work, timer
    TooShort  \* the bytes of the loop after which the delay may end too early

ASSUME BeepersAssumption ==
    /\ Beepers \cap (Clients \cup {NoClient}) = {}
    /\ {1, 2, 158} \subseteq Byte
    /\ TooShort \subseteq 1..5

BEEPER_ADR_6011PRO == 158

VARIABLES
    bpc,     \* where each beeper thread is: the byte it sends, or the delay after it
    bval,    \* the value it writes: 1 (on) or 0 (off)
    reading  \* history: it has asked for the register; since then nobody else has used
             \* the ports, and the EC has taken each of its bytes within the delay

bvars == <<bpc, bval, reading>>
sharedVars == <<vars, bvars>>

\* Port and byte of each outb of the loop, in order.

Outb(n, v) ==
    CASE n = 1 -> <<"C", EC_C_WRITE_MEM>>
      [] n = 4 -> <<"C", EC_C_READ_MEM>>
      [] n = 3 -> <<"D", v>>
      [] OTHER -> <<"D", BEEPER_ADR_6011PRO>>

SharedInit ==
    /\ Init
    /\ bpc = [b \in Beepers |-> <<"idle", 0>>]
    /\ bval = [b \in Beepers |-> 0]
    /\ reading = [b \in Beepers |-> FALSE]

SuperioBegin(b) ==
    /\ bpc[b][1] = "idle"
    /\ bpc' = [bpc EXCEPT ![b] = <<"out", 1>>]
    /\ \E v \in {0, 1} : bval' = [bval EXCEPT ![b] = v]
    /\ UNCHANGED <<vars, reading>>

SuperioOut(b) ==
    /\ bpc[b][1] = "out"
    /\ LET n == bpc[b][2]
           o == Outb(n, bval[b])
       IN /\ SendByte(o[1], o[2])
          /\ bpc' = [bpc EXCEPT ![b] = <<"delay", n>>]
          /\ reading' = [x \in Beepers |-> x = b /\ (n = 4 \/ (n = 5 /\ reading[b]))]
    /\ UNCHANGED <<region, clientVars, history, bval>>

\* Mutant: the register is not asked for before the value is compared.
SuperioDelay_NoReadBack(b) ==
    /\ bpc[b][1] = "delay"
    /\ ibf.port = "none" \/ bpc[b][2] \in TooShort
    /\ LET n == bpc[b][2]
       IN bpc' = [bpc EXCEPT ![b] = IF n = 3 THEN <<"check", 5>> ELSE <<"out", n + 1>>]
    /\ reading' = [reading EXCEPT ![b] = @ /\ ibf.port = "none"]
    /\ UNCHANGED <<vars, bval>>

\* mdelay(1), after which the loop goes on whether or not the EC has taken the byte.
SuperioDelay(b) ==
    /\ bpc[b][1] = "delay"
    /\ ibf.port = "none" \/ bpc[b][2] \in TooShort
    /\ LET n == bpc[b][2]
       IN bpc' = [bpc EXCEPT ![b] = IF n = 5 THEN <<"check", 5>> ELSE <<"out", n + 1>>]
    /\ reading' = [reading EXCEPT ![b] = @ /\ ibf.port = "none"]
    /\ UNCHANGED <<vars, bval>>

\* A beeper that was switched on reads back as 2.
Matches(byte, v) == byte = v \/ (byte = 2 /\ v = 1)

\* Mutant: the loop is left whatever was read back.
SuperioCheck_Once(b) ==
    /\ bpc[b][1] = "check"
    /\ obf' = FALSE
    /\ bpc' = [bpc EXCEPT ![b] = <<"idle", 0>>]
    /\ UNCHANGED <<mem, ibf, odata, ecst, eaddr, region, clientVars, history, bval, reading>>

\* The inb takes whatever the output buffer holds.
SuperioCheck(b) ==
    /\ bpc[b][1] = "check"
    /\ obf' = FALSE
    /\ bpc' = [bpc EXCEPT ![b] = IF Matches(odata, bval[b]) THEN <<"idle", 0>> ELSE <<"out", 1>>]
    /\ UNCHANGED <<mem, ibf, odata, ecst, eaddr, region, clientVars, history, bval, reading>>

\* The EC's own side of the beeper register.
EcBeeperOn ==
    /\ mem[BEEPER_ADR_6011PRO] = 1
    /\ mem' = [mem EXCEPT ![BEEPER_ADR_6011PRO] = 2]
    /\ UNCHANGED <<ibf, obf, odata, ecst, eaddr, region, clientVars, history, bvars>>

SuperioStep(b) == SuperioOut(b) \/ SuperioDelay(b) \/ SuperioCheck(b)

\* A client that uses the ports meets every beeper thread that is reading back.
SharedClientStep(c) ==
    /\ ClientStep(c)
    /\ reading' = [b \in Beepers |-> reading[b] /\ pc'[c] \notin Inside]
    /\ UNCHANGED <<bpc, bval>>

SharedNext ==
    \/ EcTake /\ UNCHANGED bvars
    \/ EcBeeperOn
    \/ \E c \in Clients : SharedClientStep(c)
    \/ \E b \in Beepers : SuperioBegin(b) \/ SuperioStep(b)

SharedFairness ==
    /\ WF_sharedVars(EcTake /\ UNCHANGED bvars)
    /\ \A c \in Clients : WF_sharedVars(Run(c) /\ SharedClientStep(c))
    /\ \A b \in Beepers : WF_sharedVars(SuperioStep(b))

SharedSpec == SharedInit /\ [][SharedNext]_sharedVars /\ SharedFairness

----------------------------------------------------------------------------
Returns(b) == bpc[b][1] = "check" /\ bpc'[b][1] = "idle"

\* superio_write_byte returns only with the value it was asked to write in the register,
\* whatever clients, other beeper threads and a slow EC did to the bytes of the write, if
\* its reading back was in peace: what writing in a loop is there for.  (With somebody
\* else on the ports the byte read back may be an answer to him, and with an EC slower
\* than the delay it may be an old one.)
WriteVerified ==
    [][\A b \in Beepers :
        Returns(b) /\ reading[b] => Matches(mem[BEEPER_ADR_6011PRO], bval[b])]_sharedVars

OthersAway(b) ==
    /\ \A c \in Clients : pc[c] \notin Inside
    /\ \A y \in Beepers \ {b} : bpc[y][1] = "idle"

\* The EC takes each byte within the delay that follows it.
EcKeepsUp == \A b \in Beepers : SuperioDelay(b) => ibf.port = "none"

\* The read-back loop has no bound; it ends if from some time on the other users of the
\* ports leave it alone and the EC takes every byte within the delay after it.
LoopEnds ==
    \A b \in Beepers :
        <>[]OthersAway(b) /\ <>[][EcKeepsUp]_sharedVars
            => (bpc[b][1] # "idle" ~> bpc[b][1] = "idle")
====
