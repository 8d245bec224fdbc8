------------------------------- MODULE Config -------------------------------
(***************************************************************************)
(* What a runtime takes from its operator, and what it relies on later:    *)
(* the configuration of a node and its peers (runtime/config.py), the      *)
(* certificates and packet sizes it accepts (runtime/protocol.py), the     *)
(* native brain (runtime/handlers.py) and the robot profile that turns     *)
(* outputs into what motors are driven with (robotics/profile.py).  A text *)
(* is "bad" when the source refuses it for its form alone.                 *)
(***************************************************************************)
EXTENDS Integers, Sequences, SequencesExt, FiniteSets, FiniteSetsExt

CONSTANTS MaxPeers, MaxWatchdog, ModelLimit, RamLimit, InputLimit, OutputLimit,
          Rejected     \* a ValueError, PermissionError or ProtocolError

ASSUME ConfigAssumption ==
    /\ {MaxPeers, MaxWatchdog, ModelLimit, RamLimit, InputLimit, OutputLimit} \subseteq Nat \ {0}

Unique(seq) == IsInjective(seq)
Firsts(seq, Field(_)) == [i \in DOMAIN seq |-> Field(seq[i])]

-----------------------------------------------------------------------------
(* Nodes and peers: a node is [id, texts, numbers, heartbeat, timeout,     *)
(* peers], a peer [id, texts, pin]; texts and numbers say whether the      *)
(* fields nothing here depends on are of the right form and range.         *)

PeerAccepted(p) == p.id # "bad" /\ p.texts /\ p.pin # "bad"

\* Mutant: only the pins of the peers are compared.
DistinctPins(node) == Unique(Firsts(node.peers, LAMBDA p : p.pin))

Distinct(node) ==
    /\ Unique(<<node.id>> \o Firsts(node.peers, LAMBDA p : p.id))
    /\ Unique(Firsts(node.peers, LAMBDA p : p.pin))

NodeAccepted(node) ==
    /\ node.id # "bad" /\ node.texts /\ node.numbers
    /\ node.timeout > 2 * node.heartbeat
    /\ Len(node.peers) <= MaxPeers /\ \A i \in DOMAIN node.peers : PeerAccepted(node.peers[i])
    /\ Distinct(node)

\* ApplicationConfig.load: a file is [keys, tls, factory, options, node].
Loaded(file) ==
    IF /\ file.keys = {"schema_version", "node", "brain"} /\ file.tls /\ file.factory /\ file.options
       /\ NodeAccepted(file.node)
    THEN file.node ELSE Rejected

\* A certificate is [pin, names, trusted]: the digest of what it is, its DNS
\* names, and whether TLS accepts it from the fleet's authority.
LocalIdentity(node, cert) == cert.trusted /\ cert.names = <<node.id>>

\* The first peer with that certificate, 0 when it is nobody's.
PeerAt(node, pin) == SelectInSeq(node.peers, LAMBDA p : p.pin = pin)

AuthorizedPeer(node, cert, expected) ==
    LET i == PeerAt(node, cert.pin)
    IN  IF /\ cert.trusted /\ i # 0 /\ expected \in {Rejected, node.peers[i].id}
           /\ cert.names = <<node.peers[i].id>>
        THEN node.peers[i].id ELSE Rejected

-----------------------------------------------------------------------------
(* Packets, by kind and size.                                              *)

PrefixSize == 20
\* Mutant: the flag of a result is forgotten.
LimitTight(kind, payload) ==
    CASE kind = "HELLO" -> 256 [] kind = "LOAD" -> 8 [] kind = "JOB" -> payload + PrefixSize
      [] kind = "RESULT" -> payload + 16 [] kind = "ERROR" -> 17

Limit(kind, payload) ==
    CASE kind = "HELLO" -> 256 [] kind = "LOAD" -> 8 [] kind = "JOB" -> payload + PrefixSize
      [] kind = "RESULT" -> payload + 17 [] kind = "ERROR" -> 17
ReadPacket(kind, size, payload) ==
    /\ size <= Limit(kind, payload)
    /\ kind \in {"LOAD", "ERROR"} => size = Limit(kind, payload)

-----------------------------------------------------------------------------
(* The native brain: [keys, size, digest, cap, threshold, empty, loads,    *)
(* inputs, outputs], with probabilities in hundredths.                     *)

\* What is checked before the library is asked to load, and after.
HandlerOptions(h) ==
    /\ h.keys /\ h.size <= ModelLimit /\ h.digest /\ h.cap \in 1..RamLimit
    /\ h.threshold \in 0..100 /\ h.empty >= 0
HandlerShape(h) ==
    /\ h.inputs \in 1..InputLimit /\ h.outputs \in 1..OutputLimit
    /\ h.empty < h.outputs

\* Mutant: a model that was loaded and is then refused stays open.
HandlerLeaky(h) ==
    IF ~HandlerOptions(h) \/ ~h.loads THEN "closed"
    ELSE IF HandlerShape(h) THEN "serving" ELSE "leaked"

Handler(h) == IF HandlerOptions(h) /\ h.loads /\ HandlerShape(h) THEN "serving" ELSE "closed"

\* scores: what the engine computed, or Rejected when it failed.
Infer(h, length, scores) ==
    IF Handler(h) # "serving" \/ length # h.inputs \/ scores = <<>> THEN Rejected
    ELSE LET best == Min({i \in DOMAIN scores : \A j \in DOMAIN scores : scores[j] <= scores[i]})
         IN  IF scores[best] \notin 0..100 THEN Rejected
             ELSE IF best - 1 # h.empty /\ scores[best] >= h.threshold
                  THEN [class |-> best - 1, bytes |-> 8] ELSE [class |-> best - 1, bytes |-> 0]

-----------------------------------------------------------------------------
(* The robot profile: a motor is [id, channel, inverted, min, max], where  *)
(* a channel is a number or a text, by what it reads as.                   *)

NotFinite == 99
MotorAccepted(m) ==
    m.id # "bad" /\ m.channel.reads # "bad" /\ m.min # NotFinite /\ m.max # NotFinite /\ m.min < m.max

\* Mutant: a channel 1 is another than the channel "1".
ChannelsByType(p) == Unique(Firsts(p.motors, LAMBDA m : m.channel))

ChannelsDistinct(p) == Unique(Firsts(p.motors, LAMBDA m : m.channel.reads))

ProfileAccepted(p) ==
    /\ p.schema /\ p.adapter # "bad" /\ p.watchdog \in 1..MaxWatchdog /\ p.config
    /\ \A i \in DOMAIN p.motors : MotorAccepted(p.motors[i])
    /\ \A i \in DOMAIN p.attachments : p.attachments[i].id # "bad" /\ p.attachments[i].connection
    /\ Unique(Firsts(p.motors, LAMBDA m : m.id) \o Firsts(p.attachments, LAMBDA t : t.id))
    /\ ChannelsDistinct(p)

\* from_dict: fields is what the file has, anything else takes its default.
ProfileFields == {"schema_version", "adapter", "adapter_config", "motors", "attachments",
                  "required_capabilities", "dry_run", "watchdog_s"}
FromDict(fields, value) ==
    LET p == [value EXCEPT !.dry_run = IF "dry_run" \in fields THEN @ ELSE TRUE,
                           !.adapter = IF "adapter" \in fields THEN @ ELSE "null",
                           !.motors = IF "motors" \in fields THEN @ ELSE <<>>]
    IN  IF fields \subseteq ProfileFields /\ Unique(p.required) /\ ProfileAccepted(p) THEN p ELSE Rejected

Physical(m, logical) == IF m.inverted THEN -logical ELSE logical

\* Mutant: only what the brain asked for has to be within the limits.
LogicalOnly(m, logical) == logical # NotFinite /\ logical \in m.min..m.max

\* map_value accepts what is within the limits before and after inversion.
Mappable(m, logical) ==
    logical # NotFinite /\ logical \in m.min..m.max /\ Physical(m, logical) \in m.min..m.max

\* Mutant: the check already inverts.
CheckedOutputsPhysical(p, outputs) ==
    IF /\ p.motors # <<>> /\ DOMAIN outputs = Range(Firsts(p.motors, LAMBDA m : m.id))
       /\ \A i \in DOMAIN p.motors : Mappable(p.motors[i], outputs[p.motors[i].id])
    THEN [id \in DOMAIN outputs |->
             Physical(CHOOSE m \in Range(p.motors) : m.id = id, outputs[id])] ELSE Rejected

CheckedOutputs(p, outputs) ==
    IF /\ p.motors # <<>> /\ DOMAIN outputs = Range(Firsts(p.motors, LAMBDA m : m.id))
       /\ \A i \in DOMAIN p.motors : Mappable(p.motors[i], outputs[p.motors[i].id])
    THEN outputs ELSE Rejected

\* What the channels are driven with: pairs of a channel and a number.
MapMotorOutputs(p, outputs) ==
    IF CheckedOutputs(p, outputs) = Rejected THEN Rejected
    ELSE {<<m.channel, Physical(m, CheckedOutputs(p, outputs)[m.id])>> : m \in Range(p.motors)}

-----------------------------------------------------------------------------
(* Properties.                                                             *)

\* An accepted configuration gives every other node one certificate and
\* every certificate one node: no two certificates answer to one id, nobody
\* is taken for the node itself, and each peer is let in under its own
\* entry whether it was dialled or has dialled.
PeersNamed(node, certs) ==
    NodeAccepted(node) =>
        /\ \A c, d \in certs : LET p == AuthorizedPeer(node, c, Rejected)
                               IN  p # Rejected => /\ p # node.id /\ ~LocalIdentity(node, c)
                                                   /\ p = AuthorizedPeer(node, d, Rejected) => c.pin = d.pin
        /\ \A i \in DOMAIN node.peers : \A e \in {Rejected, node.peers[i].id} :
              AuthorizedPeer(node, [pin |-> node.peers[i].pin, names |-> <<node.peers[i].id>>, trusted |-> TRUE], e)
                  = node.peers[i].id

\* Everything a node of the same limit may send is read.
PacketsFit(payload) ==
    /\ \A n \in 0..payload : ReadPacket("JOB", PrefixSize + n, payload) /\ ReadPacket("RESULT", 17 + n, payload)
    /\ ReadPacket("ERROR", 17, payload) /\ ReadPacket("LOAD", 8, payload)
    /\ \A n \in 1..128 : ReadPacket("HELLO", 1 + n, payload)

\* A model is open exactly while it can be asked, and its answer is a class
\* it has; bytes are sent only of what is neither empty nor doubtful.
BrainOwned(h, length, scores) ==
    LET answer == Infer(h, length, scores)
    IN  /\ Handler(h) = "serving" \/ Handler(h) = "closed"
        /\ (answer # Rejected /\ Len(scores) = h.outputs) =>
              /\ answer.class \in 0..(h.outputs - 1)
              /\ answer.bytes > 0 => answer.class # h.empty /\ scores[answer.class + 1] \in h.threshold..100

\* Whatever is driven was asked for: one value for each channel, within the
\* limits of its motor and inverted exactly once however often the outputs
\* are checked; and a file that does not say so never moves a motor.
DrivenWithinLimits(fields, value, outputs) ==
    LET p == FromDict(fields, value)
        checked == CheckedOutputs(p, outputs)
        driven == MapMotorOutputs(p, outputs)
    IN  p # Rejected =>
        /\ ~p.dry_run => "dry_run" \in fields
        /\ driven # Rejected =>
              /\ Cardinality({d[1].reads : d \in driven}) = Len(p.motors)
              /\ \A m \in Range(p.motors) : \E d \in driven :
                    d[1] = m.channel /\ d[2] \in m.min..m.max /\ outputs[m.id] \in m.min..m.max
                        /\ d[2] = IF m.inverted THEN -outputs[m.id] ELSE outputs[m.id]
              /\ MapMotorOutputs(p, checked) = driven
=============================================================================
