---------------------------- MODULE MCByteStream ----------------------------
EXTENDS ByteStream
MCMagic == <<9, 1>>
MCHashSize == 0 :> 2
MCMessages == {
  Request(RESPONSE, 15, <<3>>), Request(PING, 0, <<>>),
  Request(SEND_FILE, 1, <<<<2, 9>>, [algorithm |-> 0, filehash |-> <<9, 1>>], 37, 8, 70>>),
  Request(RECEIVE_FILE, 2, <<<<2>>, 0, 9>>), Request(LIST_FILES, 3, <<<<>>>>),
  Request(FILE_LIST, 4, <<3, 0, <<[path |-> <<2>>, file_type |-> 1], [path |-> <<9, 1>>, file_type |-> 0]>>>>),
  Request(FILE_LIST, 5, <<3, 1, <<>>>>),
  Request(DATA_PACKET, 6, <<1, 63, <<9, 1, 8, 7, 15, 0>>>>) }
MCOffers == {{0}, {0, 17}, {16, 273, 290}, {290}}
=============================================================================
