----------------------------- MODULE MCDatagram -----------------------------
(* Every datagram of up to six bytes behind the two reserved ones, and every *)
(* shorter one, with addresses of one and two octets so that all the header  *)
(* and a byte of payload fit; the letters are a capital and a dot.  Before   *)
(* them came nothing longer, or a datagram with a long payload.              *)
EXTENDS Datagram

MCRaws == SeqOf({0}, 2) \cup
          {<<0, 0>> \o s : s \in SeqOf({0, 1, 3, 4, 46, 65}, 6)}

MCEarlier == {<<>>, <<0, 0, 0, 1, 9, 0, 53, 7, 7, 7, 7>>,
                    <<0, 0, 0, 3, 1, 65, 1, 3, 3, 3, 3>>}

MCSources == [atyp : {1}, octets : {<<9>>, <<0>>}, port : {0, 255, 256, 65535}]
        \cup [atyp : {4}, octets : {<<9, 3>>}, port : {53, 65280}]

MCPayloads == {<<>>, <<5>>, <<3, 1, 46>>}
=============================================================================
