------------------------ MODULE MCNotificationOutbox ------------------------
EXTENDS NotificationOutbox

CONSTANT entry
=============================================================================
