--------------------------- MODULE MC_KafkaProducer ---------------------------
EXTENDS KafkaProducer

CONSTANTS s1, s2

MCSenders == {s1, s2}

=============================================================================
