---------------------------- MODULE MCNntpClient ----------------------------
(* Articles for NntpClient: with the lines that are stuffed, with a damaged *)
(* line, without a CRC, two that are not yEnc, and none.                    *)
EXTENDS NntpClient

SomeArticles ==
    { <<"=ybegin", "=ypart", ".", ".x", "=yend crc">>,
      <<"=ybegin", "!", "", "=yend crc">>,
      <<"=ybegin", "x", "=yend">>,
      <<"x", "x">>,
      <<"x">>,
      <<>> }

=============================================================================
