---------------------------- MODULE PacketCodec ----------------------------
(***************************************************************************)
(* One packet on its way between a client, the game server and another     *)
(* client: GameSocket::encodePacket and decodePacket with the CryptoBox    *)
(* under them, against client/socket.rs of the server.                     *)
(*                                                                         *)
(* The cipher is symbolic.  A byte b sealed with the key k is the number   *)
(* 256 * k + b, and the message authentication code depends on the key and *)
(* on the length: nobody alters a packet here, but one may be cut short or *)
(* opened with another key.  The key 0 stands for "no cryptobox".  The     *)
(* length constants of libsodium are scaled down, the moves in memory are  *)
(* not.                                                                    *)
(***************************************************************************)
EXTENDS ClientPackets, ServerPackets

CONSTANTS NONCE_LEN, MAC_LEN, SharedKey

ASSUME PacketCodecAssumption == {NONCE_LEN, MAC_LEN, SharedKey} \subseteq Nat \ {0}

PREFIX_LEN == NONCE_LEN + MAC_LEN
PacketHeader == Struct(<<"id", "encrypted">>, <<U(2), Bool>>)
HeaderSize == 3

Zeros(n) == [i \in 1..n |-> 0]
Overwrite(data, at, cells) ==
    SubSeq(data, 1, at) \o cells \o SubSeq(data, at + Len(cells) + 1, Len(data))

-----------------------------------------------------------------------------
(* CryptoBox.                                                              *)

Mac(key, plain) == [i \in 1..MAC_LEN |-> 256 * key + (Len(plain) % 256)]
Cipher(key, plain) == [i \in DOMAIN plain |-> 256 * key + plain[i]]

(* Nonce, authentication code and ciphertext take the place of the plain   *)
(* bytes and of the PREFIX_LEN bytes behind them.                          *)
encryptInPlace(data, at, size, key) ==
    LET plain == SubSeq(data, at + 1, at + size)
    IN Overwrite(data, at, Zeros(NONCE_LEN) \o Mac(key, plain) \o Cipher(key, plain))

(* What decryptInto writes at its destination, or an error it throws.      *)
decryptInto(data, at, size, key) ==
    LET code == SubSeq(data, at + NONCE_LEN + 1, at + PREFIX_LEN)
        cipher == SubSeq(data, at + PREFIX_LEN + 1, at + size)
        plain == [i \in DOMAIN cipher |-> cipher[i] % 256]
    IN IF size < PREFIX_LEN THEN ReadError("message is too short", data)
       ELSE IF cipher # Cipher(key, plain) \/ code # Mac(key, plain)
            THEN ReadError("open failed", data)
       ELSE Read(plain, data)

(* The plain bytes go NONCE_LEN behind the nonce, and are then moved back. *)
decryptInPlace(data, at, size, key) ==
    LET r == decryptInto(data, at, size, key)
        opened == Overwrite(data, at + NONCE_LEN, r.v)
        moved == SubSeq(opened, at + NONCE_LEN + 1, at + NONCE_LEN + Len(r.v))
    IN IF r.ok THEN [r EXCEPT !.b = Overwrite(opened, at, moved)] ELSE r

-----------------------------------------------------------------------------
(* GameSocket.                                                             *)

(* The length of a TCP packet is written last, in the place kept for it.   *)
encodePacket(id, v, key) ==
    LET p == ClientSends[id]
        start == IF p.tcp THEN writePrimitive(Buffer(<<>>), 0, 4) ELSE Buffer(<<>>)
        b == writeValue(writeValue(start, PacketHeader, [id |-> id, encrypted |-> p.enc]), p.t, v)
        headerSize == HeaderSize + (IF p.tcp THEN 4 ELSE 0)
        raw == Len(b.data) - headerSize
        sealed == IF p.enc THEN encryptInPlace(b.data \o Zeros(PREFIX_LEN), headerSize, raw, key)
                           ELSE b.data
    IN IF p.enc /\ key = 0 THEN <<>>
       ELSE IF p.tcp THEN rawWriteBytes([data |-> sealed, pos |-> 0], BigEndian(Len(sealed) - 4, 4)).data
       ELSE sealed

(* The packet read, with the buffer behind it, or the error: an unknown    *)
(* packet, a clear one that must be encrypted, no key, the wrong key.      *)
decodePacket(bytes, key) ==
    LET header == readValue(Buffer(bytes), PacketHeader)
        id == header.v.id
        opened == IF key = 0 THEN ReadError("no cryptobox", bytes)
                  ELSE decryptInPlace(bytes, HeaderSize, Len(bytes) - HeaderSize, key)
        body == [data |-> IF header.v.encrypted THEN SubSeq(opened.b, 1, HeaderSize + Len(opened.v)) ELSE bytes,
                 pos |-> HeaderSize]
        r == readValue(body, ClientReads[id].t)
    IN IF ~header.ok THEN ReadError("header", header.b)
       ELSE IF id \notin DOMAIN ClientReads THEN ReadError("invalid packet", header.b)
       ELSE IF ClientReads[id].enc /\ ~header.v.encrypted THEN ReadError("cleartext", header.b)
       ELSE IF header.v.encrypted /\ ~opened.ok THEN opened
       ELSE IF r.ok THEN Read([id |-> id, v |-> r.v], r.b) ELSE r

-----------------------------------------------------------------------------
(* The server's side of the same format (client/socket.rs).                *)

ESEncode(id, v, key) ==
    LET p == ServerSends[id]
        body == writeValue(Buffer(<<>>), p.t, v).data
        header == writeValue(Buffer(<<>>), PacketHeader, [id |-> id, encrypted |-> p.enc]).data
        packet == header \o (IF p.enc THEN Zeros(NONCE_LEN) \o Mac(key, body) \o Cipher(key, body) ELSE body)
    IN IF p.tcp THEN BigEndian(Len(packet), 4) \o packet ELSE packet

ESDecode(bytes, key) ==
    LET header == readValue(Buffer(bytes), PacketHeader)
        id == header.v.id
        opened == decryptInto(bytes, HeaderSize, Len(bytes) - HeaderSize, key)
        body == IF header.v.encrypted THEN Buffer(opened.v) ELSE header.b
        r == readValue(body, ServerReads[id].t)
    IN IF ~header.ok THEN header
       ELSE IF id \notin DOMAIN ServerReads THEN ReadError("no handler", header.b)
       ELSE IF ServerReads[id].enc /\ ~header.v.encrypted THEN ReadError("cleartext", header.b)
       ELSE IF header.v.encrypted /\ ~opened.ok THEN opened
       ELSE IF r.ok THEN Read([id |-> id, v |-> r.v], r.b) ELSE r

(* What the server makes of a packet that it passes on to other players.   *)
RelayedAs(id, v, account) ==
    CASE id = 12003 -> [id |-> 22001, v |-> [players |-> <<[accountId |-> account, data |-> v.data]>>]]
      [] id = 12004 -> [id |-> 22002, v |-> [players |-> <<[accountId |-> account, data |-> v.data]>>]]
      [] id = 12010 -> [id |-> 22010, v |-> [sender |-> account, frame |-> v.frame]]
      [] id = 12011 -> [id |-> 22011, v |-> [sender |-> account, message |-> v.message]]

Relayed == {12003, 12004, 12010, 12011}

-----------------------------------------------------------------------------
VARIABLES stage,    \* where the packet is
          packet,   \* the packet that was sent first
          wire,     \* its bytes, without the length once that is read
          got       \* what the last reader made of it

codecVars == <<stage, packet, wire, got>>

NoResult == ReadError("nothing", Buffer(<<>>))
Sender == 5

CodecInit == stage = "idle" /\ packet = [id |-> 0, v |-> 0] /\ wire = <<>> /\ got = NoResult

ClientSend ==
    /\ stage = "idle"
    /\ \E id \in DOMAIN ClientSends : \E v \in Samples(ClientSends[id].t) :
         /\ packet' = [id |-> id, v |-> v]
         /\ wire' = encodePacket(id, v, SharedKey)
    /\ stage' = "up"
    /\ UNCHANGED got

ServerSend ==
    /\ stage = "idle"
    /\ \E id \in DOMAIN ServerSends : \E v \in Samples(ClientReads[id].t) :
         /\ id \notin {22001, 22010}   \* made of what players send: see ServerRelay
         /\ packet' = [id |-> id, v |-> v]
         /\ wire' = ESEncode(id, v, SharedKey)
    /\ stage' = "down"
    /\ UNCHANGED got

(* A TCP reader takes the length, and then as many bytes.                  *)
Framed(tcp, bytes) ==
    IF tcp THEN SubSeq(bytes, 5, 4 + FromBigEndian(SubSeq(bytes, 1, 4), FALSE)) ELSE bytes

ServerHandle ==
    /\ stage = "up"
    /\ got' = ESDecode(Framed(ClientSends[packet.id].tcp, wire), SharedKey)
    /\ stage' = IF packet.id \in Relayed THEN "relay" ELSE "done"
    /\ UNCHANGED <<packet, wire>>

ServerRelay ==
    /\ stage = "relay" /\ got.ok
    /\ LET p == RelayedAs(packet.id, got.v.v, Sender) IN wire' = ESEncode(p.id, p.v, SharedKey)
    /\ stage' = "relayed"
    /\ UNCHANGED <<packet, got>>

ClientHandle ==
    /\ stage \in {"down", "relayed"}
    /\ LET id == IF stage = "down" THEN packet.id ELSE RelayedAs(packet.id, got.v.v, Sender).id
       IN got' = decodePacket(Framed(ServerSends[id].tcp, wire), SharedKey)
    /\ stage' = "done"
    /\ UNCHANGED <<packet, wire>>

(* A server of another version, or a broken one, sends fewer bytes.        *)
ClientHandleShort ==
    /\ stage = "down"
    /\ LET bytes == Framed(ServerSends[packet.id].tcp, wire)
       IN \E n \in 0..Len(bytes) - 1 :
            /\ wire' = SubSeq(bytes, 1, n)
            /\ got' = decodePacket(wire', SharedKey)
    /\ stage' = "short"
    /\ UNCHANGED packet

Finish == stage \in {"done", "short"} /\ stage' = "idle" /\ packet' = [id |-> 0, v |-> 0] /\ wire' = <<>> /\ got' = NoResult

CodecNext == ClientSend \/ ServerSend \/ ServerHandle \/ ServerRelay \/ ClientHandle \/ ClientHandleShort \/ Finish

-----------------------------------------------------------------------------
CodecTypeOK ==
    /\ stage \in {"idle", "up", "down", "relay", "relayed", "done", "short"}
    /\ \A i \in DOMAIN wire : wire[i] \in 0..(256 * SharedKey + 255)
    /\ got.ok \in BOOLEAN

Consumed == got.b.pos = Len(got.b.data)

(* Every packet arrives as it was sent: the reader on the other side finds *)
(* the same value in every field, accepts its encryption and leaves no     *)
(* byte unread; what the server relays reaches the other client with the   *)
(* sender's value (encodePacket and decodePacket against socket.rs, and    *)
(* every GLOBED_SERIALIZABLE_STRUCT against the server's struct). A packet *)
(* that is cut short is refused (ByteBuffer::boundsCheck).                 *)
Understood ==
    /\ stage \in {"relay", "done"} => got.ok /\ Consumed
    /\ stage = "done" => got.v = IF packet.id \in Relayed THEN RelayedAs(packet.id, packet.v, Sender) ELSE packet
    /\ stage = "short" => ~got.ok

=============================================================================
