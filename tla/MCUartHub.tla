----------------------------- MODULE MCUartHub -----------------------------
EXTENDS UartHub

CONSTANTS a, b
Pair == {<<a, b>>}
Whole == {<<a, b, a>>}
Pieces == {<<a>>, <<b>>, <<b, a>>}
Units == {<<a>>, <<b>>}
Everything == {"Select", "Release", "BulkStart", "BulkData", "BulkEnd", "ConfigRead",
               "Bootloader"}
=============================================================================
