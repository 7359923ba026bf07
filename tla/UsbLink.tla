------------------------------ MODULE UsbLink ------------------------------
(****************************************************************************)
(* The USB cable between a device and the agent. Firmware and gateway are   *)
(* built for the signed protocol v1 (SerialLink) or the encrypted v2        *)
(* (SecureLink) and speak that one only; what both keep (who believes to be *)
(* authenticated, the lines under way, the port) is the same state here.    *)
(****************************************************************************)
EXTENDS SerialLink

VARIABLES
    protocol,           \* "v1" or "v2"
    sinceHello, leaked, matches     \* see SecureLink

Secure == INSTANCE SecureLink

secureOnly == <<sinceHello, leaked, matches>>
signedOnly == <<awaitingReady, sinceRequest, failures, cooling>>
usbVars == <<protocol, vars, secureOnly>>

UsbInit ==
    /\ protocol \in {"v1", "v2"}
    /\ Init /\ Secure!Init

Signed(Step) == protocol = "v1" /\ Step /\ UNCHANGED <<protocol, secureOnly>>
Encrypted(Step) == protocol = "v2" /\ Step /\ UNCHANGED <<protocol, signedOnly>>

UsbNext == Signed(Next) \/ Encrypted(Secure!Next)

\* As in the two modules: the loops of both ends keep running.
UsbFairness ==
    /\ WF_usbVars(Signed(Poll)) /\ WF_usbVars(Signed(Handle))
    /\ WF_usbVars(Signed(OpenPort)) /\ WF_usbVars(Signed(IdleClose))
    /\ WF_usbVars(Signed(Serve)) /\ WF_usbVars(Signed(Tick))
    /\ WF_usbVars(Encrypted(Secure!Poll)) /\ WF_usbVars(Encrypted(Secure!Handle))
    /\ WF_usbVars(Encrypted(Secure!OpenPort)) /\ WF_usbVars(Encrypted(Secure!IdleClose))
    /\ WF_usbVars(Encrypted(Secure!Serve)) /\ WF_usbVars(Encrypted(Secure!Tick))

UsbSpec == UsbInit /\ [][UsbNext]_usbVars /\ UsbFairness

----------------------------------------------------------------------------
(* Properties *)

\* Type invariant: that of the protocol in use.
UsbTypeOK ==
    /\ protocol = "v1" => TypeOK
    /\ protocol = "v2" => Secure!TypeOK

\* Protocol v1: whatever is restarted, unplugged or stalled, the link comes back
\* (the device's retries, its heartbeat timeout, the errors that send it back to
\* the start, the agent's limits), or stays for ever in one of two states: there
\* is no third way to be stuck, and no endless round of attempts.
SignedLinkRecovers ==
    protocol = "v1" => Reconnects \/ <>[]WaitsForReady \/ <>[]KeepsOldSession

\* Protocol v2: a linked pair stays linked while nothing breaks and no line is
\* held up.
EncryptedLinkIsStable ==
    [][protocol = "v2" /\ Secure!Linked /\ stalls' = 0 /\ breaks' = breaks
          => Secure!Linked']_usbVars

\* Protocol v1: "Reconexion tras reinicio del agente y timeout de heartbeat"
\* (firmware/README.md:21): the link comes back. The device that waits for a
\* ready (awaiting_ready_) gives up neither by itself nor on a new challenge.
SignedLinkReconnects == protocol = "v1" => Reconnects

\* Protocol v2: the same promise. The gateway that ends a connection does not
\* close the handle of the port, and cannot open it again.
EncryptedLinkReconnects == protocol = "v2" => Secure!Reconnects
=============================================================================
